---------------------------- MODULE Spec2Model ----------------------------
(***************************************************************************)
(* A model of the IconVG C decoder (src/src/c/decoder.c): the byte cursor, *)
(* the variable-length number decoders, the metadata parsers of            *)
(* iconvg_decode_viewbox and iconvg_private_decode, the bytecode           *)
(* interpreter and the begin_decode / end_decode driver iconvg_decode.     *)
(*                                                                         *)
(* One behaviour is a caller that holds a byte string src, first queries   *)
(* iconvg_decode_viewbox on it and then runs iconvg_decode on it, with a   *)
(* canvas whose callbacks return what they like.                           *)
(*                                                                         *)
(* Numbers.  A float is held as its IEEE-754 binary32 bit pattern, folded  *)
(* to one integer "key": the 31 magnitude bits, negated when the sign bit  *)
(* is set.  Keys order exactly as the floats do, a key of magnitude above  *)
(* F32_INF is a NaN, and -0.0 and +0.0 share the key 0.                    *)
(***************************************************************************)
EXTENDS Integers, Sequences, FiniteSets, TLC

VARIABLES
    src,          \* the source bytes (src_ptr, src_len), fixed for the run
    opts,         \* the caller's choices: canvas kind, dst_rect, options, dst_viewbox
    pc,           \* where the caller / the decoder is
    vb,           \* iconvg_decode_viewbox's locals and results
    d,            \* iconvg_decode's cursor (iconvg_private_decoder d)
    md,           \* iconvg_private_decode's metadata-loop locals
    state,        \* the iconvg_paint state
    ex,           \* iconvg_private_execute_bytecode's locals
    err_msg,      \* iconvg_decode's err_msg local
    ret,          \* what iconvg_decode returned
    calls,        \* the callbacks made so far, in order, with what each returned
    ghost         \* history: the chunks each parser has looked at, the bytes read

vars == <<src, opts, pc, vb, d, md, state, ex, err_msg, ret, calls, ghost>>

---------------------------------------------------------------------------
(* Errors (aaa_public.h:67-84) and NULL.                                   *)

NULL == "NULL"
iconvg_error_bad_color == "iconvg: bad color"
iconvg_error_bad_coordinate == "iconvg: bad coordinate"
iconvg_error_bad_drawing_opcode == "iconvg: bad drawing opcode"
iconvg_error_bad_magic_identifier == "iconvg: bad magic identifier"
iconvg_error_bad_metadata == "iconvg: bad metadata"
iconvg_error_bad_metadata_id_order == "iconvg: bad metadata ID order"
iconvg_error_bad_metadata_suggested_palette == "iconvg: bad metadata (suggested palette)"
iconvg_error_bad_metadata_viewbox == "iconvg: bad metadata (viewbox)"
iconvg_error_bad_number == "iconvg: bad number"
iconvg_error_bad_path_unfinished == "iconvg: bad path (unfinished)"
iconvg_error_bad_styling_opcode == "iconvg: bad styling opcode"
iconvg_error_invalid_paint_type == "iconvg: invalid paint type"
iconvg_error_unsupported_vtable == "iconvg: unsupported vtable"

\* An error string of the canvas's own, returned by a failing callback.
CanvasError == "canvas: callback failed"

---------------------------------------------------------------------------
(* binary32 keys.                                                          *)

\* The key of +infinity, 0x7F800000.
F32_INF == 255 * 8388608

F32IsNaN(k) == (k > F32_INF) \/ (k < -F32_INF)

\* C's a < b and a <= b on floats: false when either is a NaN.
F32Lt(a, b) == ~F32IsNaN(a) /\ ~F32IsNaN(b) /\ a < b
F32Le(a, b) == ~F32IsNaN(a) /\ ~F32IsNaN(b) /\ a <= b

Abs(n) == IF n < 0 THEN -n ELSE n

\* The position of the highest set bit of n, for 1 <= n < 2^30.
Log2Floor(n) == CHOOSE p \in 0..29 : (2^p <= n) /\ (n < 2^(p + 1))

\* The key of the float k/64, for an integer |k| < 2^30 with at most 24
\* significant bits (so that k/64 is a binary32 value).
F32FromGrid(k) ==
    IF k = 0 THEN 0
    ELSE LET a == Abs(k)
             p == Log2Floor(a)
             frac == IF p <= 23 THEN (a - 2^p) * 2^(23 - p) ELSE (a - 2^p) \div 2^(p - 23)
             mag == ((127 + p - 6) * 8388608) + frac
         IN  IF k < 0 THEN -mag ELSE mag

\* The key of the float that equals the integer n.
F32FromInt(n) == F32FromGrid(n * 64)

---------------------------------------------------------------------------
(* The byte cursor: iconvg_private_decoder {ptr, len}.  ptr is held as an  *)
(* offset into src; the null pointer is NullPtr.                           *)

NullPtr == 0 - 1

\* self->ptr[i].  A read past the end of src is undefined in C; the model
\* yields OutOfBounds for it, and the ghost variable records that it
\* happened.
OutOfBounds == 255 + 1
PtrByte(self, i) ==
    IF (self.ptr >= 0) /\ (self.ptr + i < Len(src)) THEN src[self.ptr + i + 1]
    ELSE OutOfBounds

Advance(self, n) == [ptr |-> self.ptr + n, len |-> self.len - n]

\* The offsets ptr .. ptr + n - 1.
Span(ptr, n) == ptr..(ptr + n - 1)

iconvg_private_peek_u16le(self) == PtrByte(self, 0) + (256 * PtrByte(self, 1))

\* (iconvg_private_peek_u32le(p) >> 2), which fits 30 bits.
peek_u32le_shr2(self) ==
    (PtrByte(self, 0) \div 4) + (64 * PtrByte(self, 1)) +
    (16384 * PtrByte(self, 2)) + (4194304 * PtrByte(self, 3))

\* iconvg_private_reinterpret_from_u32_to_f32(0xFFFFFFFC & peek_u32le(p)),
\* as a key.
peek_f32_key(self) ==
    LET b0 == PtrByte(self, 0)
        b3 == PtrByte(self, 3)
        mag == (b0 - (b0 % 4)) + (256 * PtrByte(self, 1)) +
               (65536 * PtrByte(self, 2)) + (16777216 * (b3 % 128))
    IN  IF b3 >= 128 THEN -mag ELSE mag

iconvg_private_decoder__advance_to_ptr(self, new_ptr) ==
    IF (new_ptr >= self.ptr) /\ ((new_ptr - self.ptr) <= self.len)
    THEN Advance(self, new_ptr - self.ptr)
    ELSE [ptr |-> NullPtr, len |-> 0]

iconvg_private_decoder__limit_u32(self, limit) ==
    [ptr |-> self.ptr, len |-> IF limit < self.len THEN limit ELSE self.len]

\* The skip going one byte past the end of the chunk.
iconvg_private_decoder__skip_to_the_end__past(self) ==
    [ptr |-> self.ptr + self.len + 1, len |-> 0]

iconvg_private_decoder__skip_to_the_end(self) ==
    [ptr |-> self.ptr + self.len, len |-> 0]

---------------------------------------------------------------------------
(* The number decoders.  Each yields [ok, dst, self, rd]: whether it       *)
(* succeeded, *dst afterwards (dst0 when untouched), the cursor afterwards *)
(* and how many bytes at the old self->ptr it read.                        *)

NumberResult(ok, dst, self, rd) == [ok |-> ok, dst |-> dst, self |-> self, rd |-> rd]

\* The length (1, 2 or 4) that first byte v selects.
EncodingLength(v) == IF v % 2 = 0 THEN 1 ELSE IF (v \div 2) % 2 = 0 THEN 2 ELSE 4

iconvg_private_decoder__decode_coordinate_number(self, dst0) ==
    IF self.len >= 1 THEN
        LET v == PtrByte(self, 0) IN
        IF v % 2 = 0 THEN
            NumberResult(TRUE, F32FromInt((v \div 2) - 64), Advance(self, 1), 1)
        ELSE IF (v \div 2) % 2 = 0 THEN
            IF self.len >= 2 THEN
                NumberResult(TRUE,
                             F32FromGrid((iconvg_private_peek_u16le(self) \div 4) - (128 * 64)),
                             Advance(self, 2), 2)
            ELSE NumberResult(FALSE, dst0, self, 1)
        ELSE
            IF self.len >= 4 THEN
                NumberResult(TRUE, peek_f32_key(self), Advance(self, 4), 4)
            ELSE NumberResult(FALSE, dst0, self, 1)
    ELSE NumberResult(FALSE, dst0, self, 0)

\* The natural number with the two-byte form shifted by one bit, not two.
iconvg_private_decoder__decode_natural_number__one_bit(self, dst0) ==
    IF self.len >= 1 THEN
        LET v == PtrByte(self, 0) IN
        IF v % 2 = 0 THEN
            NumberResult(TRUE, v \div 2, Advance(self, 1), 1)
        ELSE IF (v \div 2) % 2 = 0 THEN
            IF self.len >= 2 THEN
                NumberResult(TRUE, iconvg_private_peek_u16le(self) \div 2, Advance(self, 2), 2)
            ELSE NumberResult(FALSE, dst0, self, 1)
        ELSE
            IF self.len >= 4 THEN
                NumberResult(TRUE, peek_u32le_shr2(self), Advance(self, 4), 4)
            ELSE NumberResult(FALSE, dst0, self, 1)
    ELSE NumberResult(FALSE, dst0, self, 0)

iconvg_private_decoder__decode_natural_number(self, dst0) ==
    IF self.len >= 1 THEN
        LET v == PtrByte(self, 0) IN
        IF v % 2 = 0 THEN
            NumberResult(TRUE, v \div 2, Advance(self, 1), 1)
        ELSE IF (v \div 2) % 2 = 0 THEN
            IF self.len >= 2 THEN
                NumberResult(TRUE, iconvg_private_peek_u16le(self) \div 4, Advance(self, 2), 2)
            ELSE NumberResult(FALSE, dst0, self, 1)
        ELSE
            IF self.len >= 4 THEN
                NumberResult(TRUE, peek_u32le_shr2(self), Advance(self, 4), 4)
            ELSE NumberResult(FALSE, dst0, self, 1)
    ELSE NumberResult(FALSE, dst0, self, 0)

\* The real number with a failure in the four-byte form that still takes
\* the first byte.
iconvg_private_decoder__decode_real_number__takes_a_byte(self, dst0) ==
    IF self.len >= 1 THEN
        LET v == PtrByte(self, 0) IN
        IF v % 2 = 0 THEN
            NumberResult(TRUE, F32FromInt(v \div 2), Advance(self, 1), 1)
        ELSE IF (v \div 2) % 2 = 0 THEN
            IF self.len >= 2 THEN
                NumberResult(TRUE, F32FromInt(iconvg_private_peek_u16le(self) \div 4),
                             Advance(self, 2), 2)
            ELSE NumberResult(FALSE, dst0, self, 1)
        ELSE
            IF self.len >= 4 THEN
                NumberResult(TRUE, peek_f32_key(self), Advance(self, 4), 4)
            ELSE NumberResult(FALSE, dst0, Advance(self, 1), 1)
    ELSE NumberResult(FALSE, dst0, self, 0)

iconvg_private_decoder__decode_real_number(self, dst0) ==
    IF self.len >= 1 THEN
        LET v == PtrByte(self, 0) IN
        IF v % 2 = 0 THEN
            NumberResult(TRUE, F32FromInt(v \div 2), Advance(self, 1), 1)
        ELSE IF (v \div 2) % 2 = 0 THEN
            IF self.len >= 2 THEN
                NumberResult(TRUE, F32FromInt(iconvg_private_peek_u16le(self) \div 4),
                             Advance(self, 2), 2)
            ELSE NumberResult(FALSE, dst0, self, 1)
        ELSE
            IF self.len >= 4 THEN
                NumberResult(TRUE, peek_f32_key(self), Advance(self, 4), 4)
            ELSE NumberResult(FALSE, dst0, self, 1)
    ELSE NumberResult(FALSE, dst0, self, 0)


\* Binary long division: the quotient bits and the remainder after `steps`
\* more doubling steps, given the remainder r < dd and the bits q so far.
RECURSIVE LongDivide(_, _, _, _)
LongDivide(r, dd, q, steps) ==
    IF steps = 0 THEN [q |-> q, r |-> r]
    ELSE IF 2 * r >= dd THEN LongDivide((2 * r) - dd, dd, (2 * q) + 1, steps - 1)
         ELSE LongDivide(2 * r, dd, 2 * q, steps - 1)

\* The key of (float)(((double)n) / den), for 0 <= n < 2^14 and den 120 or
\* 15120: n/den rounded to nearest-even at 24 significant bits.  (The
\* intermediate double does not change the rounding: a quotient with such a
\* denominator is either a binary32 midpoint exactly or further than
\* 2^-40 from one.)
F32FromQuotient(n, den) ==
    IF n = 0 THEN 0
    ELSE LET s == CHOOSE t \in (0 - 8)..14 :
                    IF t >= 0 THEN (den <= n * 2^t) /\ (n * 2^t < 2 * den)
                    ELSE (den * 2^(0 - t) <= n) /\ (n < 2 * den * 2^(0 - t))
             nn == IF s >= 0 THEN n * 2^s ELSE n
             dd == IF s >= 0 THEN den ELSE den * 2^(0 - s)
             m == LongDivide(nn - dd, dd, 1, 23)
             g == LongDivide(m.r, dd, 0, 1)
             up == (g.q = 1) /\ ((g.r # 0) \/ (m.q % 2 = 1))
         IN  ((127 - s) * 8388608) + (m.q - 8388608) + (IF up THEN 1 ELSE 0)

iconvg_private_decoder__decode_zero_to_one_number(self, dst0) ==
    IF self.len >= 1 THEN
        LET v == PtrByte(self, 0) IN
        IF v % 2 = 0 THEN
            NumberResult(TRUE, F32FromQuotient(v \div 2, 120), Advance(self, 1), 1)
        ELSE IF (v \div 2) % 2 = 0 THEN
            IF self.len >= 2 THEN
                NumberResult(TRUE,
                             F32FromQuotient(iconvg_private_peek_u16le(self) \div 4, 15120),
                             Advance(self, 2), 2)
            ELSE NumberResult(FALSE, dst0, self, 1)
        ELSE
            IF self.len >= 4 THEN
                NumberResult(TRUE, peek_f32_key(self), Advance(self, 4), 4)
            ELSE NumberResult(FALSE, dst0, self, 1)
    ELSE NumberResult(FALSE, dst0, self, 0)

---------------------------------------------------------------------------
(* Magic identifier, ViewBox and Suggested Palette.                        *)

MagicIdentifier == <<137, 73, 86, 71>>    \* 0x89 0x49 0x56 0x47

\* The magic test with its fourth comparison forgotten.
decode_magic_identifier__three_bytes(self) ==
    IF self.len < 4 THEN [ok |-> FALSE, self |-> self, rd |-> 0]
    ELSE IF PtrByte(self, 0) # MagicIdentifier[1] THEN [ok |-> FALSE, self |-> self, rd |-> 1]
    ELSE IF PtrByte(self, 1) # MagicIdentifier[2] THEN [ok |-> FALSE, self |-> self, rd |-> 2]
    ELSE IF PtrByte(self, 2) # MagicIdentifier[3] THEN [ok |-> FALSE, self |-> self, rd |-> 3]
    ELSE [ok |-> TRUE, self |-> Advance(self, 4), rd |-> 3]

\* [ok, self, rd]: C's || stops reading at the first byte that differs.
iconvg_private_decoder__decode_magic_identifier(self) ==
    IF self.len < 4 THEN [ok |-> FALSE, self |-> self, rd |-> 0]
    ELSE IF PtrByte(self, 0) # MagicIdentifier[1] THEN [ok |-> FALSE, self |-> self, rd |-> 1]
    ELSE IF PtrByte(self, 1) # MagicIdentifier[2] THEN [ok |-> FALSE, self |-> self, rd |-> 2]
    ELSE IF PtrByte(self, 2) # MagicIdentifier[3] THEN [ok |-> FALSE, self |-> self, rd |-> 3]
    ELSE IF PtrByte(self, 3) # MagicIdentifier[4] THEN [ok |-> FALSE, self |-> self, rd |-> 4]
    ELSE [ok |-> TRUE, self |-> Advance(self, 4), rd |-> 4]

Rectangle(min_x, min_y, max_x, max_y) ==
    [min_x |-> min_x, min_y |-> min_y, max_x |-> max_x, max_y |-> max_y]

\* The range test with the comparison of min_y and max_y forgotten.
ViewBoxInRange__x_only(r) ==
    /\ F32Lt(-F32_INF, r.min_x)
    /\ F32Le(r.min_x, r.max_x)
    /\ F32Lt(r.max_x, F32_INF)
    /\ F32Lt(-F32_INF, r.min_y)
    /\ F32Lt(r.max_y, F32_INF)

\* The range test of decode_metadata_viewbox on the four decoded fields.
ViewBoxInRange(r) ==
    /\ F32Lt(-F32_INF, r.min_x)
    /\ F32Le(r.min_x, r.max_x)
    /\ F32Lt(r.max_x, F32_INF)
    /\ F32Lt(-F32_INF, r.min_y)
    /\ F32Le(r.min_y, r.max_y)
    /\ F32Lt(r.max_y, F32_INF)

\* n coordinate numbers decoded one after the other (C's && or ||),
\* stopping at the first that fails.  [ok, v, self, reads]: v holds the
\* numbers decoded before the stop, reads the offsets read.
RECURSIVE DecodeCoordinates(_, _)
CoordinatesJoined(self, a, rest) ==
    [ok |-> rest.ok, v |-> <<a.dst>> \o rest.v, self |-> rest.self,
     reads |-> Span(self.ptr, a.rd) \cup rest.reads]
CoordinatesDecoded(self, a, n) ==
    IF ~a.ok THEN [ok |-> FALSE, v |-> <<>>, self |-> a.self, reads |-> Span(self.ptr, a.rd)]
    ELSE CoordinatesJoined(self, a, DecodeCoordinates(a.self, n - 1))
DecodeCoordinates(self, n) ==
    IF n = 0 THEN [ok |-> TRUE, v |-> <<>>, self |-> self, reads |-> {}]
    ELSE CoordinatesDecoded(self, iconvg_private_decoder__decode_coordinate_number(self, 0), n)

\* [ok, dst, self, rd]: the four coordinates are decoded left to right into
\* *dst, stopping at the first that fails (C's &&), so *dst may be left
\* partly written; the range test reads *dst only when all four are.
ViewBoxDecoded(dc, dst0) ==
    LET n == Len(dc.v)
        r == Rectangle(IF n >= 1 THEN dc.v[1] ELSE dst0.min_x,
                       IF n >= 2 THEN dc.v[2] ELSE dst0.min_y,
                       IF n >= 3 THEN dc.v[3] ELSE dst0.max_x,
                       IF n >= 4 THEN dc.v[4] ELSE dst0.max_y)
    IN  [ok |-> dc.ok /\ ViewBoxInRange(r), dst |-> r, self |-> dc.self,
         rd |-> Cardinality(dc.reads)]
iconvg_private_decoder__decode_metadata_viewbox(self, dst0) ==
    ViewBoxDecoded(DecodeCoordinates(self, 4), dst0)

\* A colour is its four rgba bytes.  Byte i of the built-in table
\* iconvg_private_one_byte_colors, whose contents are not part of these
\* sources, is held as the symbol 256 + i.
PaletteSize == 64
OneByteColorsByte(i) == 256 + i
OneByteColor(u) == [j \in 0..3 |-> OneByteColorsByte((4 * u) + j)]
OpaqueBlack == [j \in 0..3 |-> IF j = 3 THEN 255 ELSE 0]

\* Element i (0-based) of a suggested palette of bytes_per_elem bytes per
\* colour stored at offset p.
SuggestedPaletteColor(bytes_per_elem, p, i) ==
    LET at(k) == src[p + (bytes_per_elem * i) + k + 1] IN
    CASE bytes_per_elem = 1 ->
            IF at(0) < 128 THEN OneByteColor(at(0)) ELSE OpaqueBlack
      [] bytes_per_elem = 2 ->
            [j \in 0..3 |->
                CASE j = 0 -> 17 * (at(0) \div 16)
                  [] j = 1 -> 17 * (at(0) % 16)
                  [] j = 2 -> 17 * (at(1) \div 16)
                  [] j = 3 -> 17 * (at(1) % 16)]
      [] bytes_per_elem = 3 ->
            [j \in 0..3 |-> IF j = 3 THEN 255 ELSE at(j)]
      [] bytes_per_elem = 4 ->
            [j \in 0..3 |-> at(j)]

\* [ok, dst, self, rd]
iconvg_private_decoder__decode_metadata_suggested_palette(self, dst0) ==
    IF self.len = 0 THEN [ok |-> FALSE, dst |-> dst0, self |-> self, rd |-> 0]
    ELSE
        LET spec == PtrByte(self, 0)
            s1 == Advance(self, 1)
            n == 1 + (spec % 64)
            bytes_per_elem == 1 + (spec \div 64)
        IN  IF s1.len # n * bytes_per_elem
            THEN [ok |-> FALSE, dst |-> dst0, self |-> s1, rd |-> 1]
            ELSE [ok |-> TRUE, rd |-> 1 + s1.len,
                  dst |-> [i \in 0..(PaletteSize - 1) |->
                              IF i < n THEN SuggestedPaletteColor(bytes_per_elem, s1.ptr, i)
                              ELSE dst0[i]],
                  self |-> iconvg_private_decoder__skip_to_the_end(s1)]


---------------------------------------------------------------------------
(* iconvg_decode_viewbox.                                                  *)

\* iconvg_private_default_viewbox(): {-32, -32, +32, +32}.
iconvg_private_default_viewbox ==
    Rectangle(F32FromInt(0 - 32), F32FromInt(0 - 32), F32FromInt(32), F32FromInt(32))

\* History of one metadata chunk a parser has looked at: where its
\* chunk_length bytes start, the id read from it (NoId when it could not
\* be read), the bytes the id took, and the error it ended the parse with
\* (NULL when the chunk was accepted).
NoId == 0 - 1
ChunkSeen(at, chunk_length, id, id_len, err) ==
    [at |-> at, chunk_length |-> chunk_length, id |-> id, id_len |-> id_len, err |-> err]

Running == "(running)"

\* Lines 892-903: the cursor, the magic identifier, num_metadata_chunks.
\* v is the record of the function's locals, *dst_viewbox and result.
\* [v, reads]
decode_viewbox__num_metadata_chunks(v, m, n) ==
    IF ~n.ok THEN
        [v |-> [v EXCEPT !.d = n.self, !.ret = iconvg_error_bad_metadata],
         reads |-> Span(0, m.rd) \cup Span(m.self.ptr, n.rd)]
    ELSE
        [v |-> [v EXCEPT !.d = n.self, !.num_metadata_chunks = n.dst,
                         !.use_default_viewbox = TRUE, !.previous_metadata_id = 0 - 1],
         reads |-> Span(0, m.rd) \cup Span(m.self.ptr, n.rd)]
decode_viewbox__magic_identifier(v, m) ==
    IF ~m.ok THEN
        [v |-> [v EXCEPT !.d = m.self, !.ret = iconvg_error_bad_magic_identifier],
         reads |-> Span(0, m.rd)]
    ELSE decode_viewbox__num_metadata_chunks(
             v, m, iconvg_private_decoder__decode_natural_number(m.self, 0))
decode_viewbox__header(v) ==
    decode_viewbox__magic_identifier(
        v, iconvg_private_decoder__decode_magic_identifier([ptr |-> 0, len |-> Len(src)]))

\* The order test with > for >=.
decode_viewbox__id_out_of_order__strict(previous_metadata_id, metadata_id) ==
    previous_metadata_id > metadata_id

\* Line 918: previous_metadata_id >= ((int32_t)metadata_id).  A natural
\* number is below 2^30, so the cast keeps its value.
decode_viewbox__id_out_of_order(previous_metadata_id, metadata_id) ==
    previous_metadata_id >= metadata_id

\* Lines 908-935: one iteration of the chunk loop, [v, reads, chunk].
\* null_dst: dst_viewbox is NULL.  cl and id are chunk_length and
\* metadata_id as decoded, chunk the chunk's cursor, reads the offsets read
\* so far.

\* The chunk accepted without skipping to its end.
decode_viewbox__next__no_skip(v, cl, id, chunk, reads) ==
    [v |-> [v EXCEPT
              !.d = iconvg_private_decoder__advance_to_ptr(cl.self, chunk.ptr),
              !.previous_metadata_id = id.dst,
              !.num_metadata_chunks = @ - 1],
     reads |-> reads,
     chunk |-> <<ChunkSeen(cl.self.ptr, cl.dst, id.dst, id.rd, NULL)>>]

\* Lines 933-935: the chunk is accepted.
decode_viewbox__next(v, cl, id, chunk, reads) ==
    [v |-> [v EXCEPT
              !.d = iconvg_private_decoder__advance_to_ptr(
                        cl.self, iconvg_private_decoder__skip_to_the_end(chunk).ptr),
              !.previous_metadata_id = id.dst,
              !.num_metadata_chunks = @ - 1],
     reads |-> reads,
     chunk |-> <<ChunkSeen(cl.self.ptr, cl.dst, id.dst, id.rd, NULL)>>]

\* Lines 922-931: MID 0 (ViewBox).
\* MID 0 without the test that the chunk is used up.
decode_viewbox__viewbox__trailing_bytes(v, null_dst, cl, id, box, reads) ==
    IF ~box.ok THEN
        [v |-> [v EXCEPT !.d = cl.self, !.use_default_viewbox = FALSE,
                         !.ret = iconvg_error_bad_metadata_viewbox],
         reads |-> reads \cup Span(id.self.ptr, box.rd),
         chunk |-> <<ChunkSeen(cl.self.ptr, cl.dst, id.dst, id.rd,
                               iconvg_error_bad_metadata_viewbox)>>]
    ELSE decode_viewbox__next(
             [v EXCEPT !.use_default_viewbox = FALSE,
                       !.dst_viewbox = IF null_dst THEN @ ELSE box.dst],
             cl, id, box.self, reads \cup Span(id.self.ptr, box.rd))

\* MID 0 with *dst_viewbox written before the chunk is validated.
decode_viewbox__viewbox__written_first(v, null_dst, cl, id, box, reads) ==
    IF ~box.ok \/ (box.self.len # 0) THEN
        [v |-> [v EXCEPT !.d = cl.self, !.use_default_viewbox = FALSE,
                         !.dst_viewbox = IF null_dst THEN @ ELSE box.dst,
                         !.ret = iconvg_error_bad_metadata_viewbox],
         reads |-> reads \cup Span(id.self.ptr, box.rd),
         chunk |-> <<ChunkSeen(cl.self.ptr, cl.dst, id.dst, id.rd,
                               iconvg_error_bad_metadata_viewbox)>>]
    ELSE decode_viewbox__next(
             [v EXCEPT !.use_default_viewbox = FALSE,
                       !.dst_viewbox = IF null_dst THEN @ ELSE box.dst],
             cl, id, box.self, reads \cup Span(id.self.ptr, box.rd))

decode_viewbox__viewbox(v, null_dst, cl, id, box, reads) ==
    IF ~box.ok \/ (box.self.len # 0) THEN
        [v |-> [v EXCEPT !.d = cl.self, !.use_default_viewbox = FALSE,
                         !.ret = iconvg_error_bad_metadata_viewbox],
         reads |-> reads \cup Span(id.self.ptr, box.rd),
         chunk |-> <<ChunkSeen(cl.self.ptr, cl.dst, id.dst, id.rd,
                               iconvg_error_bad_metadata_viewbox)>>]
    ELSE decode_viewbox__next(
             [v EXCEPT !.use_default_viewbox = FALSE,
                       !.dst_viewbox = IF null_dst THEN @ ELSE box.dst],
             cl, id, box.self, reads \cup Span(id.self.ptr, box.rd))

\* Lines 915-922: metadata_id.
decode_viewbox__metadata_id(v, null_dst, cl, id, reads) ==
    IF ~id.ok THEN
        [v |-> [v EXCEPT !.d = cl.self, !.ret = iconvg_error_bad_metadata],
         reads |-> reads,
         chunk |-> <<ChunkSeen(cl.self.ptr, cl.dst, NoId, 0, iconvg_error_bad_metadata)>>]
    ELSE IF decode_viewbox__id_out_of_order(v.previous_metadata_id, id.dst) THEN
        [v |-> [v EXCEPT !.d = cl.self, !.ret = iconvg_error_bad_metadata_id_order],
         reads |-> reads,
         chunk |-> <<ChunkSeen(cl.self.ptr, cl.dst, id.dst, id.rd,
                               iconvg_error_bad_metadata_id_order)>>]
    ELSE IF id.dst = 0 THEN
        decode_viewbox__viewbox(
            v, null_dst, cl, id,
            iconvg_private_decoder__decode_metadata_viewbox(id.self, Rectangle(0, 0, 0, 0)),
            reads)
    ELSE decode_viewbox__next(v, cl, id, id.self, reads)

\* Lines 908-914: chunk_length and the chunk's cursor.
decode_viewbox__chunk_length(v, null_dst, cl) ==
    IF ~cl.ok THEN
        [v |-> [v EXCEPT !.d = cl.self, !.ret = iconvg_error_bad_metadata],
         reads |-> Span(v.d.ptr, cl.rd), chunk |-> <<>>]
    ELSE IF cl.dst > cl.self.len THEN
        [v |-> [v EXCEPT !.d = cl.self, !.ret = iconvg_error_bad_metadata],
         reads |-> Span(v.d.ptr, cl.rd),
         chunk |-> <<ChunkSeen(cl.self.ptr, cl.dst, NoId, 0, iconvg_error_bad_metadata)>>]
    ELSE decode_viewbox__metadata_id(
             v, null_dst, cl,
             iconvg_private_decoder__decode_natural_number(
                 iconvg_private_decoder__limit_u32(cl.self, cl.dst), 0),
             Span(v.d.ptr, cl.rd) \cup
                 Span(cl.self.ptr,
                      iconvg_private_decoder__decode_natural_number(
                          iconvg_private_decoder__limit_u32(cl.self, cl.dst), 0).rd))

decode_viewbox__chunk(v, null_dst) ==
    decode_viewbox__chunk_length(
        v, null_dst, iconvg_private_decoder__decode_natural_number(v.d, 0))

\* The return without the default ViewBox.
decode_viewbox__finish__no_default(v, null_dst) ==
    [v EXCEPT !.ret = NULL]

\* Lines 938-941: after the loop.
decode_viewbox__finish(v, null_dst) ==
    [v EXCEPT !.dst_viewbox = IF v.use_default_viewbox /\ ~null_dst
                              THEN iconvg_private_default_viewbox ELSE @,
              !.ret = NULL]

---------------------------------------------------------------------------
(* Doubles.  A double that is a whole number of 64ths (below 2^30 of them) *)
(* is held as that number; any other double is Untracked.  Untracked is    *)
(* also the key of a float whose value the model does not follow; no       *)
(* decoder yields it, as its low two bits are set.                         *)

Untracked == 2147483646 + 1

\* The number of 64ths in the float with key k; Untracked when it is not a
\* whole number of them or not below 2^30 of them.
F32ToGrid(k) ==
    IF k = 0 THEN 0
    ELSE LET a == Abs(k)
             e == a \div 8388608
             m == 8388608 + (a % 8388608)
             g == IF (e > 150) \/ (e < 121) THEN Untracked
                  ELSE IF e >= 144 THEN m * 2^(e - 144)
                  ELSE IF m % 2^(144 - e) # 0 THEN Untracked
                  ELSE m \div 2^(144 - e)
         IN  IF (k = Untracked) \/ (g = Untracked) THEN Untracked
             ELSE IF k < 0 THEN 0 - g ELSE g

\* iconvg_rectangle_f32__width_f64 and __height_f64: max - min when max >
\* min (false when either is a NaN), else zero.
iconvg_rectangle_f32__width_f64(r) ==
    IF F32Lt(r.min_x, r.max_x) THEN
        IF (F32ToGrid(r.min_x) = Untracked) \/ (F32ToGrid(r.max_x) = Untracked)
        THEN Untracked ELSE F32ToGrid(r.max_x) - F32ToGrid(r.min_x)
    ELSE 0

iconvg_rectangle_f32__height_f64(r) ==
    IF F32Lt(r.min_y, r.max_y) THEN
        IF (F32ToGrid(r.min_y) = Untracked) \/ (F32ToGrid(r.max_y) = Untracked)
        THEN Untracked ELSE F32ToGrid(r.max_y) - F32ToGrid(r.min_y)
    ELSE 0

---------------------------------------------------------------------------
(* iconvg_private_decode: the paint state and the metadata.                *)

iconvg_private_default_palette == [i \in 0..(PaletteSize - 1) |-> OpaqueBlack]

\* Lines 951-963: height_in_pixels from the options or from dst_rect.  The
\* caller's rectangles are whole numbers of 64ths.
HeightLimit == 1048576    \* 0x100000
\* The height with the limit on the height of dst_rect left out.
private_decode__height_in_pixels__unlimited(r, options) ==
    IF options.non_null /\ options.height_in_pixels.has_value
    THEN options.height_in_pixels.value
    ELSE iconvg_rectangle_f32__height_f64(r) \div 64
private_decode__height_in_pixels(r, options) ==
    IF options.non_null /\ options.height_in_pixels.has_value
    THEN options.height_in_pixels.value
    ELSE LET h == iconvg_rectangle_f32__height_f64(r) IN
         IF h <= HeightLimit * 64 THEN h \div 64 ELSE HeightLimit

\* Lines 949-974: the paint state, the magic identifier, the chunk count.
\* [err, d, state, md, reads]
private_decode__num_metadata_chunks(d0, st, m, n) ==
    [err |-> IF n.ok THEN NULL ELSE iconvg_error_bad_metadata,
     d |-> n.self, state |-> st,
     md |-> [num_metadata_chunks |-> IF n.ok THEN n.dst ELSE 0,
             previous_metadata_id |-> 0 - 1],
     reads |-> Span(d0.ptr, m.rd) \cup Span(m.self.ptr, n.rd)]
private_decode__magic_identifier(d0, st, m) ==
    IF ~m.ok THEN
        [err |-> iconvg_error_bad_magic_identifier, d |-> m.self, state |-> st,
         md |-> [num_metadata_chunks |-> 0, previous_metadata_id |-> 0 - 1],
         reads |-> Span(d0.ptr, m.rd)]
    ELSE private_decode__num_metadata_chunks(
             d0, st, m, iconvg_private_decoder__decode_natural_number(m.self, 0))
private_decode__header(d0, st, r, options) ==
    private_decode__magic_identifier(
        d0,
        [st EXCEPT !.viewbox = iconvg_private_default_viewbox,
                   !.height_in_pixels = private_decode__height_in_pixels(r, options),
                   !.paint_rgba = [j \in 0..3 |-> 0],
                   !.custom_palette = iconvg_private_default_palette],
        iconvg_private_decoder__decode_magic_identifier(d0))

\* Line 988: previous_metadata_id >= ((int32_t)metadata_id).
private_decode__id_out_of_order(previous_metadata_id, metadata_id) ==
    previous_metadata_id >= metadata_id

\* Lines 992-1011: the switch on metadata_id, on the chunk cursor left
\* after the id.  [err, chunk, state, rd]
private_decode__case_viewbox(st, box) ==
    [err |-> IF ~box.ok \/ (box.self.len # 0)
             THEN iconvg_error_bad_metadata_viewbox ELSE NULL,
     chunk |-> box.self, state |-> [st EXCEPT !.viewbox = box.dst], rd |-> box.rd]
\* The Suggested Palette case without the test for bytes left over.
private_decode__case_suggested_palette__no_length(st, pal) ==
    [err |-> NULL, chunk |-> pal.self,
     state |-> [st EXCEPT !.custom_palette = pal.dst], rd |-> pal.rd]
private_decode__case_suggested_palette(st, pal) ==
    [err |-> IF ~pal.ok \/ (pal.self.len # 0)
             THEN iconvg_error_bad_metadata_suggested_palette ELSE NULL,
     chunk |-> pal.self, state |-> [st EXCEPT !.custom_palette = pal.dst], rd |-> pal.rd]
\* The switch with a default case that breaks instead of returning.
private_decode__dispatch__skip_unknown(metadata_id, chunk, st) ==
    CASE metadata_id = 0 ->
            private_decode__case_viewbox(
                st, iconvg_private_decoder__decode_metadata_viewbox(chunk, st.viewbox))
      [] metadata_id = 1 ->
            private_decode__case_suggested_palette(
                st, iconvg_private_decoder__decode_metadata_suggested_palette(
                        chunk, st.custom_palette))
      [] OTHER ->
            [err |-> NULL, chunk |-> chunk, state |-> st, rd |-> 0]
private_decode__dispatch(metadata_id, chunk, st) ==
    CASE metadata_id = 0 ->
            private_decode__case_viewbox(
                st, iconvg_private_decoder__decode_metadata_viewbox(chunk, st.viewbox))
      [] metadata_id = 1 ->
            private_decode__case_suggested_palette(
                st, iconvg_private_decoder__decode_metadata_suggested_palette(
                        chunk, st.custom_palette))
      [] OTHER ->
            [err |-> iconvg_error_bad_metadata, chunk |-> chunk, state |-> st, rd |-> 0]

\* Lines 978-1015: one iteration of the chunk loop.
\* [err, d, state, md, reads, chunk]

\* Lines 1009-1015: after the switch.
private_decode__next(st, m, cl, id, sw, reads) ==
    IF sw.err # NULL THEN
        [err |-> sw.err, d |-> cl.self, state |-> sw.state, md |-> m,
         reads |-> reads \cup Span(id.self.ptr, sw.rd),
         chunk |-> <<ChunkSeen(cl.self.ptr, cl.dst, id.dst, id.rd, sw.err)>>]
    ELSE
        [err |-> NULL,
         d |-> iconvg_private_decoder__advance_to_ptr(
                   cl.self, iconvg_private_decoder__skip_to_the_end(sw.chunk).ptr),
         state |-> sw.state,
         md |-> [num_metadata_chunks |-> m.num_metadata_chunks - 1,
                 previous_metadata_id |-> id.dst],
         reads |-> reads \cup Span(id.self.ptr, sw.rd),
         chunk |-> <<ChunkSeen(cl.self.ptr, cl.dst, id.dst, id.rd, NULL)>>]

\* Lines 985-992: metadata_id.
private_decode__metadata_id(st, m, cl, id, reads) ==
    IF ~id.ok THEN
        [err |-> iconvg_error_bad_metadata, d |-> cl.self, state |-> st, md |-> m,
         reads |-> reads,
         chunk |-> <<ChunkSeen(cl.self.ptr, cl.dst, NoId, 0, iconvg_error_bad_metadata)>>]
    ELSE IF private_decode__id_out_of_order(m.previous_metadata_id, id.dst) THEN
        [err |-> iconvg_error_bad_metadata_id_order, d |-> cl.self, state |-> st,
         md |-> m, reads |-> reads,
         chunk |-> <<ChunkSeen(cl.self.ptr, cl.dst, id.dst, id.rd,
                               iconvg_error_bad_metadata_id_order)>>]
    ELSE private_decode__next(st, m, cl, id,
                              private_decode__dispatch(id.dst, id.self, st), reads)

\* The chunk cursor carved without the test of chunk_length against d->len.
private_decode__chunk_length__unchecked(d0, st, m, cl) ==
    IF ~cl.ok THEN
        [err |-> iconvg_error_bad_metadata, d |-> cl.self, state |-> st, md |-> m,
         reads |-> Span(d0.ptr, cl.rd), chunk |-> <<>>]
    ELSE private_decode__metadata_id(
             st, m, cl,
             iconvg_private_decoder__decode_natural_number(
                 iconvg_private_decoder__limit_u32(cl.self, cl.dst), 0),
             Span(d0.ptr, cl.rd) \cup
                 Span(cl.self.ptr,
                      iconvg_private_decoder__decode_natural_number(
                          iconvg_private_decoder__limit_u32(cl.self, cl.dst), 0).rd))

\* Lines 978-984: chunk_length and the chunk's cursor.
private_decode__chunk_length(d0, st, m, cl) ==
    IF ~cl.ok THEN
        [err |-> iconvg_error_bad_metadata, d |-> cl.self, state |-> st, md |-> m,
         reads |-> Span(d0.ptr, cl.rd), chunk |-> <<>>]
    ELSE IF cl.dst > cl.self.len THEN
        [err |-> iconvg_error_bad_metadata, d |-> cl.self, state |-> st, md |-> m,
         reads |-> Span(d0.ptr, cl.rd),
         chunk |-> <<ChunkSeen(cl.self.ptr, cl.dst, NoId, 0, iconvg_error_bad_metadata)>>]
    ELSE private_decode__metadata_id(
             st, m, cl,
             iconvg_private_decoder__decode_natural_number(
                 iconvg_private_decoder__limit_u32(cl.self, cl.dst), 0),
             Span(d0.ptr, cl.rd) \cup
                 Span(cl.self.ptr,
                      iconvg_private_decoder__decode_natural_number(
                          iconvg_private_decoder__limit_u32(cl.self, cl.dst), 0).rd))

private_decode__chunk(d0, st, m) ==
    private_decode__chunk_length(
        d0, st, m, iconvg_private_decoder__decode_natural_number(d0, 0))

---------------------------------------------------------------------------
(* iconvg_private_execute_bytecode: arithmetic.  Float and double          *)
(* arithmetic is followed exactly where every operand and the result is a  *)
(* whole number of 64ths small enough to be exact; any other result is     *)
(* Untracked.                                                              *)

Tracked2(a, b) == (a # Untracked) /\ (b # Untracked)

\* a * b and a / b on doubles held as 64ths.
GridSmall == 2^15
F64Mul(a, b) ==
    IF ~Tracked2(a, b) THEN Untracked
    ELSE IF (a = 0) \/ (b = 0) THEN 0
    ELSE IF (Abs(a) >= GridSmall) \/ (Abs(b) >= GridSmall) THEN Untracked
    ELSE IF (a * b) % 64 # 0 THEN Untracked
    ELSE (a * b) \div 64
F64Div(a, b) ==
    IF ~Tracked2(a, b) \/ (b = 0) THEN Untracked
    ELSE IF Abs(a) >= 64 * GridSmall THEN Untracked
    ELSE IF (a * 64) % Abs(b) # 0 THEN Untracked
    ELSE IF b < 0 THEN 0 - ((a * 64) \div (0 - b)) ELSE (a * 64) \div b
F64Sub(a, b) == IF Tracked2(a, b) THEN a - b ELSE Untracked
F64Add(a, b) == IF Tracked2(a, b) THEN a + b ELSE Untracked

\* A double held as 64ths, converted to float: exact below 2^24 64ths.
F32FromF64(g) == IF (g = Untracked) \/ (Abs(g) >= 16777216) THEN Untracked ELSE F32FromGrid(g)

\* The end point taken for its own reflection.
F32Reflect__endpoint(c, x) == c

\* a + b and (2 * c) - x on floats.
F32Add(a, b) == F32FromF64(F64Add(F32ToGrid(a), F32ToGrid(b)))
F32Reflect(c, x) ==
    LET cg == F32ToGrid(c) IN
    IF (cg = Untracked) \/ (Abs(cg) >= 16777216) THEN Untracked
    ELSE F32FromF64(F64Sub(2 * cg, F32ToGrid(x)))

\* x * scale with the bias left out.
ToCanvas__no_bias(x, scale, bias) == F32FromF64(F64Mul(F32ToGrid(x), scale))

\* (x * scale) + bias, passed to a callback's float parameter.
ToCanvas(x, scale, bias) == F32FromF64(F64Add(F64Mul(F32ToGrid(x), scale), bias))

\* Lines 307-330: the transform from the viewbox to dst_rect.
\* [scale_x, bias_x, scale_y, bias_y], doubles.
Transform(scale_x, bias_x, scale_y, bias_y) ==
    [scale_x |-> scale_x, bias_x |-> bias_x, scale_y |-> scale_y, bias_y |-> bias_y]
execute_bytecode__scale_and_bias(r, viewbox, rw, rh, vw, vh) ==
    IF (vw = Untracked) \/ (vh = Untracked) \/ (rw = Untracked) \/ (rh = Untracked) THEN
        Transform(Untracked, Untracked, Untracked, Untracked)
    ELSE IF (rw > 0) /\ (rh > 0) /\ (vw > 0) /\ (vh > 0) THEN
        Transform(F64Div(rw, vw),
                  F64Sub(F32ToGrid(r.min_x), F64Mul(F32ToGrid(viewbox.min_x), F64Div(rw, vw))),
                  F64Div(rh, vh),
                  F64Sub(F32ToGrid(r.min_y), F64Mul(F32ToGrid(viewbox.min_y), F64Div(rh, vh))))
    ELSE Transform(64, 0, 64, 0)
execute_bytecode__transform(r, viewbox) ==
    execute_bytecode__scale_and_bias(
        r, viewbox,
        iconvg_rectangle_f32__width_f64(r), iconvg_rectangle_f32__height_f64(r),
        iconvg_rectangle_f32__width_f64(viewbox), iconvg_rectangle_f32__height_f64(viewbox))

\* adjustments[8], line 290.
adjustments == <<0, 1, 2, 3, 4, 5, 6, 0>>

\* The register index with the adjustment left out.
RegisterIndex__unadjusted(sel_k, opcode) == sel_k % 64

\* (sel[k] - adjustments[opcode & 0x07]) & 0x3F.  sel[k] is a uint32_t; the
\* difference wraps modulo 2^32, and as 64 divides 2^32 its low six bits
\* are those of the mathematical difference.
RegisterIndex(sel_k, opcode) == (sel_k - adjustments[(opcode % 8) + 1]) % 64

\* The increment with the selector reduced modulo 64 as it is stored.
SelectorAfter__reduced(sel_k, opcode) == IF opcode % 8 = 7 THEN (sel_k + 1) % 64 ELSE sel_k

\* sel[k] += ((opcode & 0x07) == 0x07) ? 1 : 0
SelectorAfter(sel_k, opcode) == IF opcode % 8 = 7 THEN sel_k + 1 ELSE sel_k

\* iconvg_private_set_one_byte_color(rgba, custom_palette, creg, u).
iconvg_private_set_one_byte_color(custom_palette, creg, u) ==
    IF u < 128 THEN OneByteColor(u)
    ELSE IF u < 192 THEN
        [j \in 0..3 |->
            CASE j = 0 -> 85 * (((u - 128) \div 16) % 4)
              [] j = 1 -> 85 * (((u - 128) \div 4) % 4)
              [] j = 2 -> 85 * ((u - 128) % 4)
              [] j = 3 -> 255]
    ELSE creg[u % 64]

\* A colour byte the model cannot compute: a blend of bytes of the built-in
\* table.
UnknownColorByte == OneByteColorsByte(512)

\* Whether every byte of a colour is a number the model knows (not a
\* symbol of the built-in table) and the colour is premultiplied.
KnownPremul(c) ==
    /\ \A j \in 0..3 : c[j] < 256
    /\ \A j \in 0..2 : c[j] <= c[3]

\* The blend with the alpha of p kept.
execute_bytecode__blend__alpha_of_p(q_blend, p, q) ==
    [j \in 0..3 |->
        IF (p[j] >= 256) \/ (q[j] >= 256)
        THEN (IF q_blend = 0 THEN p[j] ELSE IF q_blend = 255 THEN q[j]
              ELSE UnknownColorByte)
        ELSE IF j = 3 THEN p[j]
        ELSE ((((255 - q_blend) * p[j]) + (q_blend * q[j]) + 128) \div 255) % 256]

\* The blend with the quotient truncated.
execute_bytecode__blend__truncated(q_blend, p, q) ==
    [j \in 0..3 |->
        IF (p[j] >= 256) \/ (q[j] >= 256)
        THEN (IF q_blend = 0 THEN p[j] ELSE IF q_blend = 255 THEN q[j]
              ELSE UnknownColorByte)
        ELSE ((((255 - q_blend) * p[j]) + (q_blend * q[j])) \div 255) % 256]

\* Lines 421-426: the blend of p and q, q_blend parts in 255 of q.
execute_bytecode__blend(q_blend, p, q) ==
    [j \in 0..3 |->
        IF (p[j] >= 256) \/ (q[j] >= 256)
        THEN (IF q_blend = 0 THEN p[j] ELSE IF q_blend = 255 THEN q[j]
              ELSE UnknownColorByte)
        ELSE ((((255 - q_blend) * p[j]) + (q_blend * q[j]) + 128) \div 255) % 256]

\* The colour an opcode in 0x80..0xA7 writes, from its payload at d.
execute_bytecode__color(opcode, d0, st) ==
    IF opcode < 136 THEN
        iconvg_private_set_one_byte_color(st.custom_palette, st.creg, PtrByte(d0, 0))
    ELSE IF opcode < 144 THEN
        [j \in 0..3 |->
            CASE j = 0 -> 17 * (PtrByte(d0, 0) \div 16)
              [] j = 1 -> 17 * (PtrByte(d0, 0) % 16)
              [] j = 2 -> 17 * (PtrByte(d0, 1) \div 16)
              [] j = 3 -> 17 * (PtrByte(d0, 1) % 16)]
    ELSE IF opcode < 152 THEN [j \in 0..3 |-> IF j = 3 THEN 255 ELSE PtrByte(d0, j)]
    ELSE IF opcode < 160 THEN [j \in 0..3 |-> PtrByte(d0, j)]
    ELSE execute_bytecode__blend(
             PtrByte(d0, 0),
             iconvg_private_set_one_byte_color(st.custom_palette, st.creg, PtrByte(d0, 1)),
             iconvg_private_set_one_byte_color(st.custom_palette, st.creg, PtrByte(d0, 2)))

\* The payload length of a colour opcode in 0x80..0xA7.
execute_bytecode__color_length(opcode) ==
    IF opcode < 136 THEN 1 ELSE IF opcode < 144 THEN 2 ELSE IF opcode < 152 THEN 3
    ELSE IF opcode < 160 THEN 4 ELSE 3

---------------------------------------------------------------------------
(* The canvas.  A callback made is recorded with the canvas it was made    *)
(* on, its arguments and what it returned.                                 *)

Callback(name, to, args, r) == [name |-> name, to |-> to, args |-> args, ret |-> r]

\* What a callback other than end_decode may return: a canvas of the
\* caller's returns NULL or an error of its own; the library's broken
\* canvas made with a NULL message (iconvg_decode's fallback_canvas, the
\* interpreter's no_op_canvas) returns NULL.
CallbackReturns(to) == IF to = "user" THEN {NULL, CanvasError} ELSE {NULL}

\* What end_decode(err) may return.
EndDecodeReturns(to, err) == IF to = "user" THEN {NULL, CanvasError, err} ELSE {NULL, err}

\* Lines 1047-1050: dst_canvas after the NULL test.
DstCanvas == IF opts.canvas = "null" THEN "fallback" ELSE "user"

---------------------------------------------------------------------------
(* The actions.                                                            *)

\* The caller calls iconvg_decode_viewbox(dst_viewbox, src_ptr, src_len).
DecodeViewboxHeader ==
    /\ pc = "start"
    /\ \E h \in {decode_viewbox__header(vb)} :
        /\ vb' = h.v
        /\ ghost' = [ghost EXCEPT !.vb_reads = @ \cup h.reads]
        /\ pc' = IF h.v.ret = Running THEN "viewbox_chunks" ELSE "viewbox_returned"
    /\ UNCHANGED <<src, opts, d, md, state, ex, err_msg, ret, calls>>

DecodeViewboxChunk ==
    /\ pc = "viewbox_chunks"
    /\ vb.num_metadata_chunks > 0
    /\ \E c \in {decode_viewbox__chunk(vb, opts.null_dst_viewbox)} :
        /\ vb' = c.v
        /\ ghost' = [ghost EXCEPT !.vb_reads = @ \cup c.reads, !.vb_chunks = @ \o c.chunk]
        /\ pc' = IF c.v.ret = Running THEN "viewbox_chunks" ELSE "viewbox_returned"
    /\ UNCHANGED <<src, opts, d, md, state, ex, err_msg, ret, calls>>

DecodeViewboxFinish ==
    /\ pc = "viewbox_chunks"
    /\ vb.num_metadata_chunks = 0
    /\ vb' = decode_viewbox__finish(vb, opts.null_dst_viewbox)
    /\ pc' = "viewbox_returned"
    /\ UNCHANGED <<src, opts, d, md, state, ex, err_msg, ret, calls, ghost>>

\* Lines 1047-1058: an unsupported vtable ends iconvg_decode at once.
DecodeUnsupportedVtable ==
    /\ pc = "viewbox_returned"
    /\ opts.canvas = "unsupported"
    /\ ret' = iconvg_error_unsupported_vtable
    /\ pc' = "returned"
    /\ UNCHANGED <<src, opts, vb, d, md, state, ex, err_msg, calls, ghost>>

\* Where iconvg_decode goes once err_msg holds begin_decode's result.
decode__after_begin_decode(r) == IF r = NULL THEN "private_decode" ELSE "end_decode"

\* Lines 1060-1068: the cursor and begin_decode.
BeginDecode ==
    /\ pc = "viewbox_returned"
    /\ opts.canvas # "unsupported"
    /\ d' = [ptr |-> 0, len |-> Len(src)]
    /\ \E r \in CallbackReturns(DstCanvas) :
        /\ calls' = Append(calls, Callback("begin_decode", DstCanvas, <<opts.dst_rect>>, r))
        /\ err_msg' = r
        /\ pc' = decode__after_begin_decode(r)
    /\ UNCHANGED <<src, opts, vb, md, state, ex, ret, ghost>>

\* iconvg_private_decode's result dropped instead of kept in err_msg.
PrivateDecodeReturns__dropped(err) ==
    /\ err_msg' = NULL
    /\ pc' = "end_decode"

\* iconvg_private_decode returning err to iconvg_decode.
PrivateDecodeReturns(err) ==
    /\ err_msg' = err
    /\ pc' = "end_decode"

PrivateDecodeHeader ==
    /\ pc = "private_decode"
    /\ \E h \in {private_decode__header(d, state, opts.dst_rect, opts.options)} :
        /\ d' = h.d
        /\ state' = h.state
        /\ md' = h.md
        /\ ghost' = [ghost EXCEPT !.reads = @ \cup h.reads]
        /\ IF h.err # NULL THEN PrivateDecodeReturns(h.err)
           ELSE pc' = "metadata" /\ UNCHANGED err_msg
    /\ UNCHANGED <<src, opts, vb, ex, ret, calls>>

PrivateDecodeChunk ==
    /\ pc = "metadata"
    /\ md.num_metadata_chunks > 0
    /\ \E c \in {private_decode__chunk(d, state, md)} :
        /\ d' = c.d
        /\ state' = c.state
        /\ md' = c.md
        /\ ghost' = [ghost EXCEPT !.reads = @ \cup c.reads, !.chunks = @ \o c.chunk]
        /\ IF c.err # NULL THEN PrivateDecodeReturns(c.err)
           ELSE pc' = "metadata" /\ UNCHANGED err_msg
    /\ UNCHANGED <<src, opts, vb, ex, ret, calls>>

\* on_metadata_viewbox called from inside the chunk loop.
OnMetadataViewbox__in_the_loop ==
    /\ pc = "metadata"
    /\ \E r \in CallbackReturns(DstCanvas) :
        /\ calls' = Append(calls,
                           Callback("on_metadata_viewbox", DstCanvas, <<state.viewbox>>, r))
        /\ IF r # NULL THEN PrivateDecodeReturns(r)
           ELSE pc' = "metadata_palette" /\ UNCHANGED err_msg
    /\ UNCHANGED <<src, opts, vb, d, md, state, ex, ret, ghost>>

\* Line 1018.
OnMetadataViewbox ==
    /\ pc = "metadata"
    /\ md.num_metadata_chunks = 0
    /\ \E r \in CallbackReturns(DstCanvas) :
        /\ calls' = Append(calls,
                           Callback("on_metadata_viewbox", DstCanvas, <<state.viewbox>>, r))
        /\ IF r # NULL THEN PrivateDecodeReturns(r)
           ELSE pc' = "metadata_palette" /\ UNCHANGED err_msg
    /\ UNCHANGED <<src, opts, vb, d, md, state, ex, ret, ghost>>


\* Lines 1019-1038 and 292-336: on_metadata_suggested_palette, the caller's
\* palette, the registers, and execute_bytecode's locals.
execute_bytecode__locals(t) ==
    t @@
    [c |-> "no_op", curr_x |-> 0, curr_y |-> 0, x1 |-> 0, y1 |-> 0, x2 |-> 0, y2 |-> 0,
     x3 |-> 0, y3 |-> 0, flags |-> 0, sel |-> <<0, 0>>, lod |-> <<0, F32_INF>>,
     opcode |-> 0, reps |-> 0]

\* The registers set up with options->palette ignored.
private_decode__registers__options_ignored(st, options, t) ==
    [st EXCEPT !.creg = st.custom_palette,
               !.nreg = [i \in 0..(PaletteSize - 1) |-> 0],
               !.s2d_scale_x = t.scale_x, !.s2d_bias_x = t.bias_x,
               !.s2d_scale_y = t.scale_y, !.s2d_bias_y = t.bias_y,
               !.d2s_scale_x = F64Div(64, t.scale_x),
               !.d2s_bias_x = F64Mul(F64Sub(0, t.bias_x), F64Div(64, t.scale_x)),
               !.d2s_scale_y = F64Div(64, t.scale_y),
               !.d2s_bias_y = F64Mul(F64Sub(0, t.bias_y), F64Div(64, t.scale_y))]
private_decode__registers(st, options, t) ==
    [st EXCEPT !.custom_palette = IF options.non_null /\ options.palette.non_null
                                  THEN options.palette.colors ELSE @,
               !.creg = IF options.non_null /\ options.palette.non_null
                        THEN options.palette.colors ELSE st.custom_palette,
               !.nreg = [i \in 0..(PaletteSize - 1) |-> 0],
               !.s2d_scale_x = t.scale_x, !.s2d_bias_x = t.bias_x,
               !.s2d_scale_y = t.scale_y, !.s2d_bias_y = t.bias_y,
               !.d2s_scale_x = F64Div(64, t.scale_x),
               !.d2s_bias_x = F64Mul(F64Sub(0, t.bias_x), F64Div(64, t.scale_x)),
               !.d2s_scale_y = F64Div(64, t.scale_y),
               !.d2s_bias_y = F64Mul(F64Sub(0, t.bias_y), F64Div(64, t.scale_y))]

OnMetadataSuggestedPalette ==
    /\ pc = "metadata_palette"
    /\ \E r \in CallbackReturns(DstCanvas),
          t \in {execute_bytecode__transform(opts.dst_rect, state.viewbox)} :
        /\ calls' = Append(calls, Callback("on_metadata_suggested_palette", DstCanvas,
                                           <<state.custom_palette>>, r))
        /\ IF r # NULL THEN PrivateDecodeReturns(r) /\ UNCHANGED <<state, ex>>
           ELSE /\ ex' = execute_bytecode__locals(t)
                /\ state' = private_decode__registers(state, opts.options, t)
                /\ pc' = "styling"
                /\ UNCHANGED err_msg
    /\ UNCHANGED <<src, opts, vb, d, md, ret, ghost>>

---------------------------------------------------------------------------
(* The styling mode, lines 338-494: one action per kind of opcode.         *)

Opcode == PtrByte(d, 0)
\* The opcode byte read and left in the input.
AfterOpcode__not_consumed == d

AfterOpcode == Advance(d, 1)
Read(n) == [ghost EXCEPT !.reads = @ \cup Span(d.ptr, n)]
ReadAlso(set) == [ghost EXCEPT !.reads = @ \cup {d.ptr} \cup set]

\* The styling loop ending with no error one byte early.
StylingEnd__one_byte_left ==
    /\ pc = "styling"
    /\ d.len <= 1
    /\ PrivateDecodeReturns(NULL)
    /\ UNCHANGED <<src, opts, vb, d, md, state, ex, ret, calls, ghost>>

\* if (d->len == 0) return NULL;
StylingEnd ==
    /\ pc = "styling"
    /\ d.len = 0
    /\ PrivateDecodeReturns(NULL)
    /\ UNCHANGED <<src, opts, vb, d, md, state, ex, ret, calls, ghost>>

\* opcode < 0x80: sel[opcode >> 6] = opcode & 0x3F.
SetSelector ==
    /\ pc = "styling"
    /\ d.len > 0
    /\ Opcode < 128
    /\ d' = AfterOpcode
    /\ ex' = [ex EXCEPT !.sel[(Opcode \div 64) + 1] = Opcode % 64]
    /\ ghost' = Read(1)
    /\ UNCHANGED <<src, opts, pc, vb, md, state, err_msg, ret, calls>>

\* 0x80 <= opcode < 0xA8: set CREG[etc].
SetColorRegister ==
    /\ pc = "styling"
    /\ d.len > 0
    /\ Opcode >= 128
    /\ Opcode < 168
    /\ \E n \in {execute_bytecode__color_length(Opcode)} :
       IF AfterOpcode.len < n THEN
            /\ d' = AfterOpcode
            /\ ghost' = Read(1)
            /\ PrivateDecodeReturns(iconvg_error_bad_color)
            /\ UNCHANGED <<state, ex>>
       ELSE /\ d' = Advance(AfterOpcode, n)
            /\ ghost' = Read(1 + n)
            /\ state' = [state EXCEPT !.creg[RegisterIndex(ex.sel[1], Opcode)] =
                                          execute_bytecode__color(Opcode, AfterOpcode, state)]
            /\ ex' = [ex EXCEPT !.sel[1] = SelectorAfter(@, Opcode)]
            /\ UNCHANGED <<pc, err_msg>>
    /\ UNCHANGED <<src, opts, vb, md, ret, calls>>

\* 0xA8 <= opcode < 0xC0: set NREG[etc], a real, coordinate or zero-to-one
\* number.
execute_bytecode__number(opcode, self, dst0) ==
    IF opcode < 176 THEN iconvg_private_decoder__decode_real_number(self, dst0)
    ELSE IF opcode < 184 THEN iconvg_private_decoder__decode_coordinate_number(self, dst0)
    ELSE iconvg_private_decoder__decode_zero_to_one_number(self, dst0)

SetNumberRegister ==
    /\ pc = "styling"
    /\ d.len > 0
    /\ Opcode >= 168
    /\ Opcode < 192
    /\ \E i \in {RegisterIndex(ex.sel[2], Opcode)} :
       \E n \in {execute_bytecode__number(Opcode, AfterOpcode, state.nreg[i])} :
           /\ d' = n.self
           /\ ghost' = Read(1 + n.rd)
           /\ IF ~n.ok THEN
                /\ PrivateDecodeReturns(IF (Opcode >= 176) /\ (Opcode < 184)
                                        THEN iconvg_error_bad_coordinate
                                        ELSE iconvg_error_bad_number)
                /\ UNCHANGED <<state, ex>>
              ELSE
                /\ state' = [state EXCEPT !.nreg[i] = n.dst]
                /\ ex' = [ex EXCEPT !.sel[2] = SelectorAfter(@, Opcode)]
                /\ UNCHANGED <<pc, err_msg>>
    /\ UNCHANGED <<src, opts, vb, md, ret, calls>>

\* Line 471: the canvas of the drawing that starts, by the level of detail.
\* h is within +-2^24, so (double)h is the float of key F32FromInt(h).
\* The sink with the upper bound taken as inclusive.
execute_bytecode__canvas__closed(lod, h) ==
    IF F32Le(lod[1], F32FromInt(h)) /\ F32Le(F32FromInt(h), lod[2])
    THEN DstCanvas ELSE "no_op"

execute_bytecode__canvas(lod, h) ==
    IF F32Le(lod[1], F32FromInt(h)) /\ F32Lt(F32FromInt(h), lod[2])
    THEN DstCanvas ELSE "no_op"

\* iconvg_paint__type(state) == ICONVG_PAINT_TYPE__INVALID may hold only of
\* a colour that is not (known to be) premultiplied.
PaintTypeMayBe(st) == IF KnownPremul(st.paint_rgba) THEN {"valid"} ELSE {"valid", "invalid"}

\* The begin-path opcode with begin_path called before begin_drawing.
BeginDrawing__path_first ==
    /\ pc = "styling"
    /\ d.len > 0
    /\ Opcode >= 192
    /\ Opcode < 199
    /\ state' = [state EXCEPT !.paint_rgba = state.creg[RegisterIndex(ex.sel[1], Opcode)]]
    /\ \E type \in PaintTypeMayBe(state'),
          xy \in {DecodeCoordinates(AfterOpcode, 2)},
          c1 \in {execute_bytecode__canvas(ex.lod, state.height_in_pixels)} :
          IF type = "invalid" THEN
            /\ d' = AfterOpcode
            /\ ghost' = Read(1)
            /\ PrivateDecodeReturns(iconvg_error_invalid_paint_type)
            /\ UNCHANGED <<ex, calls>>
          ELSE IF ~xy.ok THEN
            /\ d' = xy.self
            /\ ghost' = ReadAlso(xy.reads)
            /\ PrivateDecodeReturns(iconvg_error_bad_coordinate)
            /\ UNCHANGED <<ex, calls>>
          ELSE
            /\ d' = xy.self
            /\ ghost' = ReadAlso(xy.reads)
            /\ \E r1 \in CallbackReturns(c1), r2 \in CallbackReturns(c1) :
               \E begin_drawing \in {Callback("begin_drawing", c1, <<>>, r1)},
                  begin_path \in {Callback("begin_path", c1,
                                           <<ToCanvas(xy.v[1], ex.scale_x, ex.bias_x),
                                             ToCanvas(xy.v[2], ex.scale_y, ex.bias_y)>>, r2)} :
                    IF r1 # NULL THEN
                        /\ calls' = Append(calls, begin_drawing)
                        /\ ex' = [ex EXCEPT !.curr_x = xy.v[1], !.curr_y = xy.v[2], !.c = c1]
                        /\ PrivateDecodeReturns(r1)
                    ELSE
                        /\ calls' = calls \o <<begin_path, begin_drawing>>
                        /\ ex' = [ex EXCEPT !.curr_x = xy.v[1], !.curr_y = xy.v[2], !.c = c1,
                                            !.x1 = IF r2 = NULL THEN xy.v[1] ELSE @,
                                            !.y1 = IF r2 = NULL THEN xy.v[2] ELSE @]
                        /\ IF r2 # NULL THEN PrivateDecodeReturns(r2)
                           ELSE pc' = "drawing" /\ UNCHANGED err_msg
    /\ UNCHANGED <<src, opts, vb, md, ret>>

\* 0xC0 <= opcode < 0xC7: switch to the drawing mode.
BeginDrawing ==
    /\ pc = "styling"
    /\ d.len > 0
    /\ Opcode >= 192
    /\ Opcode < 199
    /\ state' = [state EXCEPT !.paint_rgba = state.creg[RegisterIndex(ex.sel[1], Opcode)]]
    /\ \E type \in PaintTypeMayBe(state'),
          xy \in {DecodeCoordinates(AfterOpcode, 2)},
          c1 \in {execute_bytecode__canvas(ex.lod, state.height_in_pixels)} :
          IF type = "invalid" THEN
            /\ d' = AfterOpcode
            /\ ghost' = Read(1)
            /\ PrivateDecodeReturns(iconvg_error_invalid_paint_type)
            /\ UNCHANGED <<ex, calls>>
          ELSE IF ~xy.ok THEN
            /\ d' = xy.self
            /\ ghost' = ReadAlso(xy.reads)
            /\ PrivateDecodeReturns(iconvg_error_bad_coordinate)
            /\ UNCHANGED <<ex, calls>>
          ELSE
            /\ d' = xy.self
            /\ ghost' = ReadAlso(xy.reads)
            /\ \E r1 \in CallbackReturns(c1), r2 \in CallbackReturns(c1) :
               \E begin_drawing \in {Callback("begin_drawing", c1, <<>>, r1)},
                  begin_path \in {Callback("begin_path", c1,
                                           <<ToCanvas(xy.v[1], ex.scale_x, ex.bias_x),
                                             ToCanvas(xy.v[2], ex.scale_y, ex.bias_y)>>, r2)} :
                    IF r1 # NULL THEN
                        /\ calls' = Append(calls, begin_drawing)
                        /\ ex' = [ex EXCEPT !.curr_x = xy.v[1], !.curr_y = xy.v[2], !.c = c1]
                        /\ PrivateDecodeReturns(r1)
                    ELSE
                        /\ calls' = calls \o <<begin_drawing, begin_path>>
                        /\ ex' = [ex EXCEPT !.curr_x = xy.v[1], !.curr_y = xy.v[2], !.c = c1,
                                            !.x1 = IF r2 = NULL THEN xy.v[1] ELSE @,
                                            !.y1 = IF r2 = NULL THEN xy.v[2] ELSE @]
                        /\ IF r2 # NULL THEN PrivateDecodeReturns(r2)
                           ELSE pc' = "drawing" /\ UNCHANGED err_msg
    /\ UNCHANGED <<src, opts, vb, md, ret>>

\* opcode == 0xC7: set the level-of-detail bounds.
SetLevelOfDetail ==
    /\ pc = "styling"
    /\ d.len > 0
    /\ Opcode = 199
    /\ \E a \in {iconvg_private_decoder__decode_real_number(AfterOpcode, 0)} :
       \E b \in {iconvg_private_decoder__decode_real_number(a.self, 0)} :
           IF ~a.ok THEN
                /\ d' = a.self
                /\ ghost' = Read(1 + a.rd)
                /\ PrivateDecodeReturns(iconvg_error_bad_number)
                /\ UNCHANGED ex
           ELSE
                /\ d' = b.self
                /\ ghost' = ReadAlso(Span(AfterOpcode.ptr, a.rd) \cup Span(a.self.ptr, b.rd))
                /\ IF ~b.ok THEN PrivateDecodeReturns(iconvg_error_bad_number) /\ UNCHANGED ex
                   ELSE /\ ex' = [ex EXCEPT !.lod = <<a.dst, b.dst>>]
                        /\ UNCHANGED <<pc, err_msg>>
    /\ UNCHANGED <<src, opts, vb, md, state, ret, calls>>

\* The styling mode rejecting 0xC7 with the opcodes above it.
BadStylingOpcode__from_c7 ==
    /\ pc = "styling"
    /\ d.len > 0
    /\ Opcode >= 199
    /\ d' = AfterOpcode
    /\ ghost' = Read(1)
    /\ PrivateDecodeReturns(iconvg_error_bad_styling_opcode)
    /\ UNCHANGED <<src, opts, vb, md, state, ex, ret, calls>>

\* opcode >= 0xC8.
BadStylingOpcode ==
    /\ pc = "styling"
    /\ d.len > 0
    /\ Opcode >= 200
    /\ d' = AfterOpcode
    /\ ghost' = Read(1)
    /\ PrivateDecodeReturns(iconvg_error_bad_styling_opcode)
    /\ UNCHANGED <<src, opts, vb, md, state, ex, ret, calls>>

---------------------------------------------------------------------------
(* The drawing mode, lines 496-882.  A repeating opcode is fetched by      *)
(* DrawingRepeat and then run one iteration of its for loop at a time.     *)

\* ICONVG_PRIVATE_TRY around a callback made with the bytes consumed so far.
\* A callback that fails ends private_decode; one that succeeds leaves the
\* interpreter at next_pc.
TryCallback(cb, next_pc) ==
    /\ calls' = Append(calls, cb)
    /\ IF cb.ret # NULL THEN PrivateDecodeReturns(cb.ret)
       ELSE pc' = next_pc /\ UNCHANGED err_msg

\* The (x, y, x, y, ...) of a callback: each (x * scale_x) + bias_x or
\* (y * scale_y) + bias_y.
InCanvas(e, xy) ==
    [i \in 1..Len(xy) |-> IF i % 2 = 1 THEN ToCanvas(xy[i], e.scale_x, e.bias_x)
                          ELSE ToCanvas(xy[i], e.scale_y, e.bias_y)]

\* The end of the bytes in the drawing mode taken for the end of the file.
DrawingEnd__as_styling ==
    /\ pc = "drawing"
    /\ d.len = 0
    /\ PrivateDecodeReturns(NULL)
    /\ UNCHANGED <<src, opts, vb, d, md, state, ex, ret, calls, ghost>>

\* if (d->len == 0) return iconvg_error_bad_path_unfinished;
DrawingEnd ==
    /\ pc = "drawing"
    /\ d.len = 0
    /\ PrivateDecodeReturns(iconvg_error_bad_path_unfinished)
    /\ UNCHANGED <<src, opts, vb, d, md, state, ex, ret, calls, ghost>>

\* The coordinates of a relative opcode taken as they are.
FromCurrent__as_decoded(e, v) == v

\* The opcodes of the first switch: reps = opcode & 0x1F or opcode & 0x0F.
DrawingRepeat ==
    /\ pc = "drawing"
    /\ d.len > 0
    /\ Opcode \div 16 <= 13
    /\ d' = AfterOpcode
    /\ ghost' = Read(1)
    /\ ex' = [ex EXCEPT !.opcode = Opcode,
                        !.reps = IF Opcode \div 16 <= 1 \/ Opcode \div 16 = 2 \/ Opcode \div 16 = 3
                                 THEN Opcode % 32 ELSE Opcode % 16]
    /\ pc' = "reps"
    /\ UNCHANGED <<src, opts, vb, md, state, err_msg, ret, calls>>

\* Whether the repeating opcode is a relative one.
Relative(opcode) == IF opcode \div 16 <= 3 THEN opcode \div 16 >= 2 ELSE (opcode \div 16) % 2 = 1

\* The coordinates v of a relative opcode made absolute: x += curr_x,
\* y += curr_y.
FromCurrent(e, v) ==
    [i \in 1..Len(v) |-> IF Relative(e.opcode)
                         THEN F32Add(v[i], IF i % 2 = 1 THEN e.curr_x ELSE e.curr_y)
                         ELSE v[i]]

\* The number of coordinates an iteration of the opcode decodes.
execute_bytecode__operands(opcode) ==
    IF opcode \div 16 <= 5 THEN 2 ELSE IF opcode \div 16 <= 9 THEN 4 ELSE 6

\* One iteration of a line_to, quad_to or cube_to loop whose coordinates
\* were decoded, v being these made absolute: the locals after the
\* iteration and the callback's name and arguments.  [ex, name, args]
execute_bytecode__segment(e, v) ==
    IF e.opcode \div 16 <= 3 THEN
        [ex |-> [e EXCEPT !.curr_x = v[1], !.curr_y = v[2], !.x1 = v[1], !.y1 = v[2]],
         name |-> "path_line_to", args |-> InCanvas(e, v)]
    ELSE IF e.opcode \div 16 <= 5 THEN
        [ex |-> [e EXCEPT !.x2 = v[1], !.y2 = v[2], !.curr_x = v[1], !.curr_y = v[2],
                          !.x1 = F32Reflect(v[1], e.x1), !.y1 = F32Reflect(v[2], e.y1)],
         name |-> "path_quad_to", args |-> InCanvas(e, <<e.x1, e.y1>> \o v)]
    ELSE IF e.opcode \div 16 <= 7 THEN
        [ex |-> [e EXCEPT !.x2 = v[3], !.y2 = v[4], !.curr_x = v[3], !.curr_y = v[4],
                          !.x1 = F32Reflect(v[3], v[1]), !.y1 = F32Reflect(v[4], v[2])],
         name |-> "path_quad_to", args |-> InCanvas(e, v)]
    ELSE IF e.opcode \div 16 <= 9 THEN
        [ex |-> [e EXCEPT !.x2 = v[1], !.y2 = v[2], !.x3 = v[3], !.y3 = v[4],
                          !.curr_x = v[3], !.curr_y = v[4],
                          !.x1 = F32Reflect(v[3], v[1]), !.y1 = F32Reflect(v[4], v[2])],
         name |-> "path_cube_to", args |-> InCanvas(e, <<e.x1, e.y1>> \o v)]
    ELSE
        [ex |-> [e EXCEPT !.x2 = v[3], !.y2 = v[4], !.x3 = v[5], !.y3 = v[6],
                          !.curr_x = v[5], !.curr_y = v[6],
                          !.x1 = F32Reflect(v[5], v[3]), !.y1 = F32Reflect(v[6], v[4])],
         name |-> "path_cube_to", args |-> InCanvas(e, v)]

\* The loop ending one iteration early.
AfterIteration__one_less(e) == IF e.reps <= 1 THEN "drawing" ELSE "reps"

\* for (int reps = ...; reps >= 0; reps--): where the loop is after an
\* iteration that began with e.reps.
AfterIteration(e) == IF e.reps = 0 THEN "drawing" ELSE "reps"

PathIteration ==
    \E dc \in {DecodeCoordinates(d, execute_bytecode__operands(ex.opcode))} :
        /\ d' = dc.self
        /\ ghost' = [ghost EXCEPT !.reads = @ \cup dc.reads]
        /\ IF ~dc.ok THEN
                /\ PrivateDecodeReturns(iconvg_error_bad_coordinate)
                /\ UNCHANGED <<ex, calls>>
           ELSE \E it \in {execute_bytecode__segment(ex, FromCurrent(ex, dc.v))},
                   r \in CallbackReturns(ex.c) :
                /\ TryCallback(Callback(it.name, ex.c, it.args, r), AfterIteration(ex))
                /\ ex' = [it.ex EXCEPT !.reps = @ - 1]
        /\ UNCHANGED <<src, opts, vb, md, state, ret>>

\* 'L', 'l': opcodes 0x00..0x3F.
PathLineTo ==
    /\ pc = "reps"
    /\ ex.opcode \div 16 <= 3
    /\ PathIteration

\* 'T', 't', 'Q', 'q': opcodes 0x40..0x7F.
PathQuadTo ==
    /\ pc = "reps"
    /\ ex.opcode \div 16 >= 4
    /\ ex.opcode \div 16 <= 7
    /\ PathIteration

\* 'S', 's', 'C', 'c': opcodes 0x80..0xBF.
PathCubeTo ==
    /\ pc = "reps"
    /\ ex.opcode \div 16 >= 8
    /\ ex.opcode \div 16 <= 11
    /\ PathIteration

\* The operands of an arc_to: coordinate, coordinate, zero-to-one, natural,
\* coordinate, coordinate.  [ok, v, self, reads]
ArcOperands(ok, v, self, reads) == [ok |-> ok, v |-> v, self |-> self, reads |-> reads]
execute_bytecode__arc_to(r, rot, fl, to, reads) ==
    ArcOperands(to.ok, r.v \o <<rot.dst, fl.dst>> \o to.v, to.self, reads \cup to.reads)
execute_bytecode__arc_flags(r, rot, fl, reads) ==
    IF ~fl.ok THEN ArcOperands(FALSE, <<>>, fl.self, reads)
    ELSE execute_bytecode__arc_to(r, rot, fl, DecodeCoordinates(fl.self, 2), reads)
execute_bytecode__arc_rotation(r, rot, reads) ==
    IF ~rot.ok THEN ArcOperands(FALSE, <<>>, rot.self, reads)
    ELSE execute_bytecode__arc_flags(
             r, rot, iconvg_private_decoder__decode_natural_number(rot.self, 0),
             reads \cup Span(rot.self.ptr,
                             iconvg_private_decoder__decode_natural_number(rot.self, 0).rd))
execute_bytecode__arc_radii(r) ==
    IF ~r.ok THEN ArcOperands(FALSE, <<>>, r.self, r.reads)
    ELSE execute_bytecode__arc_rotation(
             r, iconvg_private_decoder__decode_zero_to_one_number(r.self, 0),
             r.reads \cup Span(r.self.ptr,
                               iconvg_private_decoder__decode_zero_to_one_number(r.self, 0).rd))
execute_bytecode__arc_operands(self) ==
    execute_bytecode__arc_radii(DecodeCoordinates(self, 2))

\* iconvg_private_path_arc_to: one or more path_cube_to calls, whose
\* coordinates the model does not follow, up to the first that fails.
MaxArcCubes == 2
ArcCube(to, r) == Callback("path_cube_to", to, <<Untracked, Untracked, Untracked,
                                                 Untracked, Untracked, Untracked>>, r)
iconvg_private_path_arc_to(to) ==
    { [i \in 1..k |-> ArcCube(to, NULL)] : k \in 1..MaxArcCubes } \cup
    { [i \in 1..k |-> ArcCube(to, IF i = k THEN r ELSE NULL)] :
        k \in 1..MaxArcCubes, r \in CallbackReturns(to) \ {NULL} }

\* 'A', 'a': opcodes 0xC0..0xDF.
PathArcTo ==
    /\ pc = "reps"
    /\ ex.opcode \div 16 >= 12
    /\ \E a \in {execute_bytecode__arc_operands(d)} :
           /\ d' = a.self
           /\ ghost' = [ghost EXCEPT !.reads = @ \cup a.reads]
           /\ IF ~a.ok THEN
                /\ PrivateDecodeReturns(iconvg_error_bad_coordinate)
                /\ UNCHANGED <<ex, calls>>
              ELSE
                \E to \in {FromCurrent(ex, <<a.v[5], a.v[6]>>)},
                   cubes \in iconvg_private_path_arc_to(ex.c) :
                    /\ calls' = calls \o cubes
                    /\ IF cubes[Len(cubes)].ret # NULL
                       THEN PrivateDecodeReturns(cubes[Len(cubes)].ret)
                       ELSE pc' = AfterIteration(ex) /\ UNCHANGED err_msg
                    /\ ex' = [ex EXCEPT !.x2 = a.v[3], !.flags = a.v[4],
                                        !.x3 = IF Relative(ex.opcode) THEN a.v[5] ELSE @,
                                        !.y3 = IF Relative(ex.opcode) THEN a.v[6] ELSE @,
                                        !.curr_x = to[1], !.curr_y = to[2],
                                        !.x1 = to[1], !.y1 = to[2],
                                        !.reps = @ - 1]
    /\ UNCHANGED <<src, opts, vb, md, state, ret>>

\* 'z' with the end_drawing left out.
ClosePath__no_end_drawing ==
    /\ pc = "drawing"
    /\ d.len > 0
    /\ Opcode = 225
    /\ d' = AfterOpcode
    /\ ghost' = Read(1)
    /\ \E r1 \in CallbackReturns(ex.c) :
        /\ calls' = Append(calls, Callback("end_path", ex.c, <<>>, r1))
        /\ IF r1 # NULL THEN PrivateDecodeReturns(r1)
           ELSE pc' = "styling" /\ UNCHANGED err_msg
    /\ UNCHANGED <<src, opts, vb, md, state, ex, ret>>

\* 'z' with the selectors set back to 0 for the styling mode.
ClosePath__selectors_reset ==
    /\ pc = "drawing"
    /\ d.len > 0
    /\ Opcode = 225
    /\ d' = AfterOpcode
    /\ ghost' = Read(1)
    /\ ex' = [ex EXCEPT !.sel = <<0, 0>>]
    /\ \E r1 \in CallbackReturns(ex.c), r2 \in CallbackReturns(ex.c) :
        \E end_path \in {Callback("end_path", ex.c, <<>>, r1)},
           end_drawing \in {Callback("end_drawing", ex.c, <<state.paint_rgba>>, r2)} :
            IF r1 # NULL THEN calls' = Append(calls, end_path) /\ PrivateDecodeReturns(r1)
            ELSE /\ calls' = calls \o <<end_path, end_drawing>>
                 /\ IF r2 # NULL THEN PrivateDecodeReturns(r2)
                    ELSE pc' = "styling" /\ UNCHANGED err_msg
    /\ UNCHANGED <<src, opts, vb, md, state, ret>>

\* 0xE1, 'z': end_path, end_drawing, back to the styling mode.
ClosePath ==
    /\ pc = "drawing"
    /\ d.len > 0
    /\ Opcode = 225
    /\ d' = AfterOpcode
    /\ ghost' = Read(1)
    /\ \E r1 \in CallbackReturns(ex.c), r2 \in CallbackReturns(ex.c) :
        \E end_path \in {Callback("end_path", ex.c, <<>>, r1)},
           end_drawing \in {Callback("end_drawing", ex.c, <<state.paint_rgba>>, r2)} :
            IF r1 # NULL THEN calls' = Append(calls, end_path) /\ PrivateDecodeReturns(r1)
            ELSE /\ calls' = calls \o <<end_path, end_drawing>>
                 /\ IF r2 # NULL THEN PrivateDecodeReturns(r2)
                    ELSE pc' = "styling" /\ UNCHANGED err_msg
    /\ UNCHANGED <<src, opts, vb, md, state, ex, ret>>

\* 'z; M' and 'z; m' with the end_path left out.
ClosePathMoveTo__no_end_path ==
    /\ pc = "drawing"
    /\ d.len > 0
    /\ Opcode \in {226, 227}
    /\ \E xy \in {DecodeCoordinates(AfterOpcode, 2)} :
        IF ~xy.ok THEN
            /\ d' = xy.self
            /\ ghost' = ReadAlso(xy.reads)
            /\ PrivateDecodeReturns(iconvg_error_bad_coordinate)
            /\ UNCHANGED <<ex, calls>>
        ELSE
            \E to \in {IF Opcode = 227 THEN <<F32Add(ex.curr_x, xy.v[1]),
                                              F32Add(ex.curr_y, xy.v[2])>>
                       ELSE xy.v},
               r2 \in CallbackReturns(ex.c) :
                /\ d' = xy.self
                /\ ghost' = ReadAlso(xy.reads)
                /\ calls' = Append(calls, Callback("begin_path", ex.c, InCanvas(ex, to), r2))
                /\ ex' = [ex EXCEPT !.curr_x = to[1], !.curr_y = to[2],
                                    !.x1 = to[1], !.y1 = to[2]]
                /\ IF r2 # NULL THEN PrivateDecodeReturns(r2)
                   ELSE UNCHANGED <<pc, err_msg>>
    /\ UNCHANGED <<src, opts, vb, md, state, ret>>

\* 'z; M' and 'z; m' decoding the coordinates before the end_path.
ClosePathMoveTo__coordinates_first ==
    /\ pc = "drawing"
    /\ d.len > 0
    /\ Opcode \in {226, 227}
    /\ \E xy \in {DecodeCoordinates(AfterOpcode, 2)}, r1 \in CallbackReturns(ex.c) :
        IF ~xy.ok THEN
            /\ d' = xy.self
            /\ ghost' = ReadAlso(xy.reads)
            /\ PrivateDecodeReturns(iconvg_error_bad_coordinate)
            /\ UNCHANGED <<ex, calls>>
        ELSE IF r1 # NULL THEN
            /\ d' = xy.self
            /\ ghost' = ReadAlso(xy.reads)
            /\ calls' = Append(calls, Callback("end_path", ex.c, <<>>, r1))
            /\ PrivateDecodeReturns(r1)
            /\ UNCHANGED ex
        ELSE
            \E to \in {IF Opcode = 227 THEN <<F32Add(ex.curr_x, xy.v[1]),
                                              F32Add(ex.curr_y, xy.v[2])>>
                       ELSE xy.v},
               r2 \in CallbackReturns(ex.c) :
                /\ d' = xy.self
                /\ ghost' = ReadAlso(xy.reads)
                /\ calls' = calls \o <<Callback("end_path", ex.c, <<>>, r1),
                                       Callback("begin_path", ex.c, InCanvas(ex, to), r2)>>
                /\ ex' = [ex EXCEPT !.curr_x = to[1], !.curr_y = to[2],
                                    !.x1 = to[1], !.y1 = to[2]]
                /\ IF r2 # NULL THEN PrivateDecodeReturns(r2)
                   ELSE UNCHANGED <<pc, err_msg>>
    /\ UNCHANGED <<src, opts, vb, md, state, ret>>

\* 0xE2 and 0xE3, 'z; M' and 'z; m': end_path, then a move_to and begin_path.
ClosePathMoveTo ==
    /\ pc = "drawing"
    /\ d.len > 0
    /\ Opcode \in {226, 227}
    /\ \E xy \in {DecodeCoordinates(AfterOpcode, 2)}, r1 \in CallbackReturns(ex.c) :
        IF r1 # NULL THEN
            /\ d' = AfterOpcode
            /\ ghost' = Read(1)
            /\ calls' = Append(calls, Callback("end_path", ex.c, <<>>, r1))
            /\ PrivateDecodeReturns(r1)
            /\ UNCHANGED ex
        ELSE IF ~xy.ok THEN
            /\ d' = xy.self
            /\ ghost' = ReadAlso(xy.reads)
            /\ calls' = Append(calls, Callback("end_path", ex.c, <<>>, r1))
            /\ PrivateDecodeReturns(iconvg_error_bad_coordinate)
            /\ UNCHANGED ex
        ELSE
            \E to \in {IF Opcode = 227 THEN <<F32Add(ex.curr_x, xy.v[1]),
                                              F32Add(ex.curr_y, xy.v[2])>>
                       ELSE xy.v},
               r2 \in CallbackReturns(ex.c) :
                /\ d' = xy.self
                /\ ghost' = ReadAlso(xy.reads)
                /\ calls' = calls \o <<Callback("end_path", ex.c, <<>>, r1),
                                       Callback("begin_path", ex.c, InCanvas(ex, to), r2)>>
                /\ ex' = [ex EXCEPT !.curr_x = to[1], !.curr_y = to[2],
                                    !.x1 = to[1], !.y1 = to[2]]
                /\ IF r2 # NULL THEN PrivateDecodeReturns(r2)
                   ELSE UNCHANGED <<pc, err_msg>>
    /\ UNCHANGED <<src, opts, vb, md, state, ret>>

\* Where an 'H', 'h', 'V' or 'v' with operand n moves (curr_x, curr_y) to.
execute_bytecode__line_to(opcode, e, n) ==
    CASE opcode = 230 -> <<n, e.curr_y>>
      [] opcode = 231 -> <<F32Add(e.curr_x, n), e.curr_y>>
      [] opcode = 232 -> <<e.curr_x, n>>
      [] opcode = 233 -> <<e.curr_x, F32Add(e.curr_y, n)>>

\* 0xE6..0xE9, 'H', 'h', 'V', 'v': a line_to that moves along one axis.
HorizontalVerticalLineTo ==
    /\ pc = "drawing"
    /\ d.len > 0
    /\ Opcode \in {230, 231, 232, 233}
    /\ \E n \in {iconvg_private_decoder__decode_coordinate_number(AfterOpcode, 0)} :
           /\ d' = n.self
           /\ ghost' = Read(1 + n.rd)
           /\ IF ~n.ok THEN
                /\ PrivateDecodeReturns(iconvg_error_bad_coordinate)
                /\ UNCHANGED <<ex, calls>>
              ELSE
                \E to \in {execute_bytecode__line_to(Opcode, ex, n.dst)},
                   r \in CallbackReturns(ex.c) :
                    /\ TryCallback(Callback("path_line_to", ex.c, InCanvas(ex, to), r),
                                   "drawing")
                    /\ ex' = [ex EXCEPT !.curr_x = to[1], !.curr_y = to[2],
                                        !.x1 = to[1], !.y1 = to[2]]
    /\ UNCHANGED <<src, opts, vb, md, state, ret>>

\* Every other opcode from 0xE0 up.
BadDrawingOpcode ==
    /\ pc = "drawing"
    /\ d.len > 0
    /\ Opcode >= 224
    /\ Opcode \notin {225, 226, 227, 230, 231, 232, 233}
    /\ d' = AfterOpcode
    /\ ghost' = Read(1)
    /\ PrivateDecodeReturns(iconvg_error_bad_drawing_opcode)
    /\ UNCHANGED <<src, opts, vb, md, state, ex, ret, calls>>

---------------------------------------------------------------------------
(* Lines 1069-1070: end_decode, and what iconvg_decode returns.            *)

EndDecode ==
    /\ pc = "end_decode"
    /\ \E r \in EndDecodeReturns(DstCanvas, err_msg) :
        /\ calls' = Append(calls, Callback("end_decode", DstCanvas,
                                           <<err_msg, Len(src) - d.len, d.len>>, r))
        /\ ret' = r
    /\ pc' = "returned"
    /\ UNCHANGED <<src, opts, vb, d, md, state, ex, err_msg, ghost>>

---------------------------------------------------------------------------
(* The caller: the files and arguments the two functions are run on.       *)

SeqsUpTo(S, n) == UNION { [1..k -> S] : k \in 0..n }

RECURSIVE Flatten(_)
Flatten(ss) == IF ss = <<>> THEN <<>> ELSE Head(ss) \o Flatten(Tail(ss))

\* A natural number below 64 in its one-byte encoding.
Natural1(n) == <<2 * n>>

\* A metadata chunk with a one-byte length and a one-byte id.
Chunk(id, payload) == Natural1(1 + Len(payload)) \o Natural1(id) \o payload

\* A file of the given chunks and bytecode.
File(chunks, bytecode) ==
    MagicIdentifier \o Natural1(Len(chunks)) \o Flatten(chunks) \o bytecode

\* Inputs without a magic identifier: too short, or wrong in one byte.
BadMagicFiles ==
    { SubSeq(MagicIdentifier, 1, k) : k \in 0..3 } \cup
    { [MagicIdentifier EXCEPT ![i] = 0] \o tail : i \in 1..4, tail \in {<<>>, <<0>>, <<0, 192>>} }
    \cup { <<0, 0, 0, 0>>, <<137, 73, 86, 71 + 1>>, <<73, 137, 86, 71, 0>> }

\* Every file whose body after the magic identifier is at most MaxBody of
\* these bytes: the naturals 0, 1, 2, 3 and 5.
MaxBody == 5
BodyBytes == {0, 2, 4, 6, 10}
RawFiles == { MagicIdentifier \o body : body \in SeqsUpTo(BodyBytes, MaxBody) }

\* Framing that breaks inside a number: a two- or four-byte encoding cut
\* short, a chunk longer than the input, lengths in two and four bytes, a
\* Suggested Palette chunk one byte short, and one followed by a chunk
\* whose length is too large or cut short; 2^30 - 1 chunks declared and two
\* or one there.
BrokenFramingFiles ==
    { MagicIdentifier \o body : body \in
        { <<1>>, <<3, 0, 0>>, <<2, 1>>, <<2, 3, 0>>, <<2, 2, 1>>, <<2, 6, 3, 0>>,
          <<2, 64>>, <<2, 64, 0, 0>>, <<2, 9, 0, 6, 0>>, <<2, 9, 0, 6>>,
          <<2, 11, 0, 0, 0, 6, 0>>, <<2, 255, 255, 255, 255, 0>>,
          <<5, 0, 2, 6>>, <<7, 0, 0, 0, 2, 6, 2, 8>>,
          <<4, 2, 6, 5, 0, 3, 0, 0>>, <<4, 6, 13, 0, 0, 2, 16>>,
          <<2, 16, 2, 192, 128, 64, 32, 128>>,
          <<4, 12, 2, 192, 128, 64, 32, 128, 10>>,
          <<4, 12, 2, 192, 128, 64, 32, 128, 3, 0>>,
          <<255, 255, 255, 255, 2, 4, 2, 6>>,
          <<255, 255, 255, 255, 10, 0, 80, 80, 176, 176>> } }

\* Coordinate numbers: -24 and +24 in one byte, +1.5 in two bytes, and
\* +infinity, a NaN and -infinity in four bytes.
FiniteCoordinates == { <<80>>, <<176>>, <<129, 129>> }
NonFiniteCoordinates == { <<3, 0, 128, 127>>, <<3, 0, 192, 127>>, <<3, 0, 128, 255>> }

\* ViewBox chunks of up to MaxCoordinates finite coordinates, and of four
\* coordinates of which one is not finite.
MaxCoordinates == 5
ViewBoxPayloads ==
    { Flatten(cs) : cs \in SeqsUpTo(FiniteCoordinates, MaxCoordinates) } \cup
    { Flatten([cs EXCEPT ![i] = c]) :
        cs \in [1..4 -> {<<80>>, <<176>>}], i \in 1..4, c \in NonFiniteCoordinates } \cup
    { <<80, 80, 176, 129>>, <<80, 80, 176, 3, 0, 128>>, <<80, 80, 176, 176, 0>> }
ViewBoxFiles ==
    { File(<<Chunk(0, p)>>, <<>>) : p \in ViewBoxPayloads }

\* Suggested Palette chunks: a spec byte and up to MaxPalettePayload bytes.
MaxPalettePayload == 5
PaletteSpecs == {0, 1, 2, 64, 65, 128, 192}
PaletteBytes == {18, 240}
PalettePayloads ==
    { <<>> } \cup
    { <<spec>> \o bytes : spec \in PaletteSpecs,
                          bytes \in SeqsUpTo(PaletteBytes, MaxPalettePayload) }
PaletteFiles ==
    { File(<<Chunk(1, p)>>, <<>>) : p \in PalettePayloads }

\* Metadata in front of the bytecode of a drawing.
SmallViewBox == Chunk(0, <<80, 80, 176, 176>>)
SmallPalette == Chunk(1, <<192, 128, 64, 32, 128>>)
Metadata ==
    { <<>>, <<SmallViewBox>>, <<SmallPalette>>, <<SmallViewBox, SmallPalette>>,
      <<SmallPalette, SmallViewBox>>, <<SmallViewBox, SmallViewBox>>,
      <<SmallViewBox, Chunk(2, <<7>>)>>, <<Chunk(5, <<>>), Chunk(3, <<>>)>>,
      <<Chunk(3, <<1, 3>>), Chunk(5, <<255>>)>>, <<Chunk(1, <<>>)>> }

\* Bytecode: styling and drawing programs that end well, are cut short, or
\* hold an opcode or a number that is rejected.
Bytecode ==
    { <<>>,
      <<192, 128, 128, 225>>,
      <<192, 128, 128, 0, 192, 192, 225>>,
      <<192, 128, 128>>,
      <<192, 128>>,
      <<192>>,
      <<192, 80, 80, 1, 176, 80, 176, 176, 225>>,
      <<192, 128, 128, 33, 130, 132, 134, 136, 225>>,
      <<192, 128, 128, 0, 144>>,
      <<192, 128, 128, 96, 132, 132, 136, 128, 64, 144, 128, 225>>,
      <<192, 128, 128, 112, 132, 132, 136, 128, 80, 136, 128, 225>>,
      <<192, 128, 128, 96, 132, 132, 136>>,
      <<192, 128, 128, 160, 130, 132, 134, 136, 138, 140, 128, 144, 144, 148, 128, 225>>,
      <<192, 128, 128, 176, 130, 132, 134, 136, 138, 140, 144, 130, 130, 134, 128, 225>>,
      <<192, 128, 128, 160, 130, 132, 134, 136, 138>>,
      <<192, 128, 128, 192, 132, 132, 0, 2, 144, 144, 225>>,
      <<192, 128, 128, 209, 132, 132, 60, 4, 130, 130, 132, 132, 0, 0, 130, 130, 225>>,
      <<192, 128, 128, 192, 132, 132, 1>>,
      <<192, 128, 128, 192, 132, 132, 0, 3, 0>>,
      <<192, 128, 128, 226, 144, 144, 227, 130, 130, 225>>,
      <<192, 128, 128, 226, 144>>,
      <<192, 128, 128, 0, 144, 144, 226, 130, 130, 0, 144>>,
      <<192, 128, 128, 230, 144, 231, 130, 232, 144, 233, 130, 225>>,
      <<192, 128, 128, 230>>,
      <<192, 128, 128, 224>>,
      <<192, 128, 128, 228, 128>>,
      <<192, 128, 128, 255>>,
      <<192, 128, 128, 225, 192, 144, 144, 225>>,
      <<192, 128, 128, 225, 225>>,
      <<5, 135, 127, 152, 1, 2, 3, 4, 193, 128, 128, 225>>,
      <<63, 135, 130, 135, 131, 192, 128, 128, 225>>,
      <<152, 255, 0, 0, 0, 192, 128, 128, 225>>,
      <<129, 127, 193, 128, 128, 225>>,
      <<160, 64, 192, 191, 192, 128, 128, 225>>,
      <<136, 18, 52, 144, 1, 2, 3, 160, 64, 128, 191, 160, 0, 1, 2, 192, 128, 128, 225>>,
      <<152, 1, 2>>, <<128>>, <<144, 1>>, <<160, 1, 2>>,
      <<69, 168, 16, 176, 144, 184, 60, 175, 169, 1, 1, 185, 3, 0, 128, 63>>,
      <<168>>, <<176, 1>>, <<184, 3, 0, 0>>,
      <<199, 0, 32, 192, 128, 128, 225>>,
      <<199, 20, 40, 192, 128, 128, 0, 144, 144, 225>>,
      <<199, 64, 128, 192, 128, 128, 0, 144, 144, 225, 199, 0, 3, 0, 128, 127,
        192, 128, 128, 225>>,
      <<199, 3, 0, 192, 127, 0, 192, 128, 128, 225>>,
      <<199, 0>>, <<199>>,
      <<200>>, <<255>>, <<0, 64, 127, 200>> }

DrawingFiles == { File(m, b) : m \in Metadata, b \in Bytecode }

\* Every byte as the opcode that ends the input, in the styling mode and in
\* the drawing mode.
OpcodeFiles ==
    { File(<<>>, <<opcode>>) : opcode \in 0..255 } \cup
    { File(<<>>, <<192, 128, 128, opcode>>) : opcode \in 0..255 }

\* The caller's rectangles and options.
Square(n) == Rectangle(0, 0, F32FromInt(n), F32FromInt(n))
\* A pointer to a palette is [non_null, colors].
NullPalette == [non_null |-> FALSE, colors |-> <<>>]
NoOptions == [non_null |-> FALSE, height_in_pixels |-> [has_value |-> FALSE, value |-> 0],
              palette |-> NullPalette]
Height(h) == [non_null |-> TRUE, height_in_pixels |-> [has_value |-> TRUE, value |-> h],
              palette |-> NullPalette]
CallerPalette == [i \in 0..(PaletteSize - 1) |-> [j \in 0..3 |-> IF j = 3 THEN 255 ELSE i]]
WithPalette == [non_null |-> TRUE, height_in_pixels |-> [has_value |-> FALSE, value |-> 0],
                palette |-> [non_null |-> TRUE, colors |-> CallerPalette]]

Arguments(canvas, dst_rect, options, null_dst_viewbox) ==
    [canvas |-> canvas, dst_rect |-> dst_rect, options |-> options,
     null_dst_viewbox |-> null_dst_viewbox]

Canvases == {"user", "null", "unsupported"}
PlainArguments == { Arguments(c, Square(64), NoOptions, FALSE) : c \in Canvases }
DrawingArguments ==
    { Arguments(c, r, o, FALSE) :
        c \in {"user", "null"},
        r \in {Square(64), Square(96), Square(0)},
        o \in {NoOptions, WithPalette, Height(5), Height(2 * HeightLimit)} } \cup
    { Arguments("unsupported", Square(64), NoOptions, TRUE),
      Arguments("user", Square(2 * HeightLimit), NoOptions, FALSE) }

\* Drawings of repeated and smooth segments, whole and cut short inside a
\* later group of arguments.
SegmentFiles ==
    { File(<<>>, b) : b \in
        { <<192, 128, 128, 1, 144, 144, 130>>,
          <<192, 128, 128, 2, 130, 130, 132, 132, 134, 134, 225>>,
          <<192, 128, 128, 97, 130, 130, 132, 132, 134, 134, 136>>,
          <<192, 128, 128, 96, 130, 130, 132, 132, 64, 136, 132, 225>>,
          <<192, 128, 128, 160, 130, 130, 132, 132, 134, 134,
            144, 136, 136, 138, 138, 225>> } }

Run(file, arguments) == [src |-> file, opts |-> arguments]
Runs ==
    { Run(f, a) : f \in BadMagicFiles \cup BrokenFramingFiles \cup ViewBoxFiles
                        \cup PaletteFiles,
                  a \in PlainArguments \cup {Arguments("null", Square(64), NoOptions, TRUE)} }
    \cup { Run(f, Arguments("user", Square(64), NoOptions, FALSE)) : f \in RawFiles }
    \cup { Run(f, a) : f \in DrawingFiles, a \in DrawingArguments }
    \cup { Run(f, Arguments("user", Square(64), NoOptions, FALSE)) :
                f \in OpcodeFiles \cup SegmentFiles }

\* What the caller's *dst_viewbox holds before the call.
CallerViewbox == Rectangle(Untracked, Untracked, Untracked, Untracked)

\* The paint state and the interpreter's locals before they are set.
NoPaint ==
    [viewbox |-> Rectangle(0, 0, 0, 0), height_in_pixels |-> 0,
     paint_rgba |-> [j \in 0..3 |-> 0],
     custom_palette |-> [i \in 0..(PaletteSize - 1) |-> [j \in 0..3 |-> 0]],
     creg |-> [i \in 0..(PaletteSize - 1) |-> [j \in 0..3 |-> 0]],
     nreg |-> [i \in 0..(PaletteSize - 1) |-> 0],
     s2d_scale_x |-> 0, s2d_bias_x |-> 0, s2d_scale_y |-> 0, s2d_bias_y |-> 0,
     d2s_scale_x |-> 0, d2s_bias_x |-> 0, d2s_scale_y |-> 0, d2s_bias_y |-> 0]
NoLocals == execute_bytecode__locals(Transform(64, 0, 64, 0))

Init ==
    /\ \E run \in Runs : src = run.src /\ opts = run.opts
    /\ pc = "start"
    /\ vb = [d |-> [ptr |-> 0, len |-> Len(src)], num_metadata_chunks |-> 0,
             use_default_viewbox |-> TRUE, previous_metadata_id |-> 0 - 1,
             dst_viewbox |-> CallerViewbox, ret |-> Running]
    /\ d = [ptr |-> 0, len |-> Len(src)]
    /\ md = [num_metadata_chunks |-> 0, previous_metadata_id |-> 0 - 1]
    /\ state = NoPaint
    /\ ex = NoLocals
    /\ err_msg = NULL
    /\ ret = Running
    /\ calls = <<>>
    /\ ghost = [vb_reads |-> {}, vb_chunks |-> <<>>, reads |-> {}, chunks |-> <<>>]

Next ==
    \/ DecodeViewboxHeader
    \/ DecodeViewboxChunk
    \/ DecodeViewboxFinish
    \/ DecodeUnsupportedVtable
    \/ BeginDecode
    \/ PrivateDecodeHeader
    \/ PrivateDecodeChunk
    \/ OnMetadataViewbox
    \/ OnMetadataSuggestedPalette
    \/ StylingEnd
    \/ SetSelector
    \/ SetColorRegister
    \/ SetNumberRegister
    \/ BeginDrawing
    \/ SetLevelOfDetail
    \/ BadStylingOpcode
    \/ DrawingEnd
    \/ DrawingRepeat
    \/ PathLineTo
    \/ PathQuadTo
    \/ PathCubeTo
    \/ PathArcTo
    \/ ClosePath
    \/ ClosePathMoveTo
    \/ HorizontalVerticalLineTo
    \/ BadDrawingOpcode
    \/ EndDecode

Spec == Init /\ [][Next]_vars

---------------------------------------------------------------------------
(* The single-file release, src/unnamed/part_000: iconvg_decode_viewbox up *)
(* to its test of the magic identifier, lines 276-284.  The cursor is      *)
(* vb.d.  size_t is 64 bits wide: a len that has wrapped below zero is     *)
(* held as the negative number it is congruent to modulo 2^64.             *)

MaxReleaseBytes == 5
ReleaseInputs == SeqsUpTo({137, 73, 86, 71, 0}, MaxReleaseBytes)

\* part_000:251-263.  The test is (len < 4) && (ptr[0] != 0x89) && ... &&
\* (ptr[3] != 0x47): it fails the input only when len < 4 and all four
\* bytes differ.  seen[i] is what ptr[i - 1] reads; a read at or past len
\* is outside the input and may find any byte.  [ok, self]
release__decode_magic_identifier(self, seen) ==
    IF (self.len < 4) /\ (\A i \in 1..4 : seen[i] # MagicIdentifier[i])
    THEN [ok |-> FALSE, self |-> self]
    ELSE [ok |-> TRUE, self |-> [ptr |-> self.ptr + 4, len |-> self.len - 4]]

ReleaseInit ==
    /\ src \in ReleaseInputs
    /\ opts = Arguments("null", Square(64), NoOptions, FALSE)
    /\ pc = "release"
    /\ vb = [d |-> [ptr |-> 0, len |-> Len(src)], num_metadata_chunks |-> 0,
             use_default_viewbox |-> TRUE, previous_metadata_id |-> 0 - 1,
             dst_viewbox |-> CallerViewbox, ret |-> Running]
    /\ d = [ptr |-> 0, len |-> Len(src)]
    /\ md = [num_metadata_chunks |-> 0, previous_metadata_id |-> 0 - 1]
    /\ state = NoPaint
    /\ ex = NoLocals
    /\ err_msg = NULL
    /\ ret = Running
    /\ calls = <<>>
    /\ ghost = [vb_reads |-> {}, vb_chunks |-> <<>>, reads |-> {}, chunks |-> <<>>]

\* part_000:276-284: return iconvg_error_bad_magic_identifier when the test
\* fails, go on to num_metadata_chunks when it passes.
ReleaseDecodeViewbox ==
    /\ pc = "release"
    /\ \E seen \in [1..4 -> {137, 73, 86, 71, 0}] :
        /\ \A i \in 1..4 : (i <= Len(src)) => (seen[i] = src[i])
        /\ \E m \in {release__decode_magic_identifier(vb.d, seen)} :
            /\ vb' = [vb EXCEPT !.d = m.self,
                                !.ret = IF m.ok THEN Running
                                        ELSE iconvg_error_bad_magic_identifier]
            /\ pc' = IF m.ok THEN "release_metadata" ELSE "release_returned"
    /\ UNCHANGED <<src, opts, d, md, state, ex, err_msg, ret, calls, ghost>>

ReleaseSpec == ReleaseInit /\ [][ReleaseDecodeViewbox]_vars

---------------------------------------------------------------------------
(* The number decoders on their own: a call of                             *)
(* iconvg_private_decoder__decode_natural_number or of                     *)
(* iconvg_private_decoder__decode_coordinate_number, _real_number or       *)
(* _zero_to_one_number on a cursor over 0..MaxNumberBytes bytes, *dst      *)
(* being a local that holds NumbersBefore.                                 *)

MaxNumberBytes == 4
NumberBytes == {0, 1, 2, 3, 128, 253, 254, 255}
RECURSIVE ByteStrings(_)
ByteStrings(n) ==
    IF n = 0 THEN {<<>>}
    ELSE { Append(s, b) : s \in ByteStrings(n - 1), b \in NumberBytes }
NumberInputs == UNION { ByteStrings(n) : n \in 0..MaxNumberBytes }

\* What the destinations hold before the call.
NumbersBefore == [natural |-> 5, float |-> F32FromInt(5)]

NumberInit ==
    /\ src \in NumberInputs
    /\ opts = Arguments("null", Square(64), NoOptions, FALSE)
    /\ pc = "number"
    /\ vb = [d |-> [ptr |-> 0, len |-> Len(src)], num_metadata_chunks |-> 0,
             use_default_viewbox |-> TRUE, previous_metadata_id |-> 0 - 1,
             dst_viewbox |-> CallerViewbox, ret |-> Running]
    /\ d = [ptr |-> 0, len |-> Len(src)]
    /\ md = [num_metadata_chunks |-> 0, previous_metadata_id |-> 0 - 1]
    /\ state = NoPaint
    /\ ex = [NoLocals EXCEPT !.flags = NumbersBefore.natural, !.curr_x = NumbersBefore.float,
                             !.y1 = NumbersBefore.float, !.x2 = NumbersBefore.float]
    /\ err_msg = NULL
    /\ ret = Running
    /\ calls = <<>>
    /\ ghost = [vb_reads |-> {}, vb_chunks |-> <<>>, reads |-> {}, chunks |-> <<>>]

\* iconvg_private_decoder__decode_natural_number(&d, &flags).
DecodeNaturalNumber ==
    /\ pc = "number"
    /\ \E n \in {iconvg_private_decoder__decode_natural_number(d, ex.flags)} :
        /\ d' = n.self
        /\ ex' = [ex EXCEPT !.flags = n.dst]
        /\ pc' = IF n.ok THEN "natural_number" ELSE "no_natural_number"
    /\ UNCHANGED <<src, opts, vb, md, state, err_msg, ret, calls, ghost>>

\* iconvg_private_decoder__decode_coordinate_number(&d, &curr_x).
DecodeCoordinateNumber ==
    /\ pc = "number"
    /\ \E n \in {iconvg_private_decoder__decode_coordinate_number(d, ex.curr_x)} :
        /\ d' = n.self
        /\ ex' = [ex EXCEPT !.curr_x = n.dst]
        /\ pc' = IF n.ok THEN "coordinate_number" ELSE "no_coordinate_number"
    /\ UNCHANGED <<src, opts, vb, md, state, err_msg, ret, calls, ghost>>

\* iconvg_private_decoder__decode_real_number(&d, &y1).
DecodeRealNumber ==
    /\ pc = "number"
    /\ \E n \in {iconvg_private_decoder__decode_real_number(d, ex.y1)} :
        /\ d' = n.self
        /\ ex' = [ex EXCEPT !.y1 = n.dst]
        /\ pc' = IF n.ok THEN "real_number" ELSE "no_real_number"
    /\ UNCHANGED <<src, opts, vb, md, state, err_msg, ret, calls, ghost>>

\* iconvg_private_decoder__decode_zero_to_one_number(&d, &x2).
DecodeZeroToOneNumber ==
    /\ pc = "number"
    /\ \E n \in {iconvg_private_decoder__decode_zero_to_one_number(d, ex.x2)} :
        /\ d' = n.self
        /\ ex' = [ex EXCEPT !.x2 = n.dst]
        /\ pc' = IF n.ok THEN "zero_to_one_number" ELSE "no_zero_to_one_number"
    /\ UNCHANGED <<src, opts, vb, md, state, err_msg, ret, calls, ghost>>

NumberNext ==
    \/ DecodeNaturalNumber
    \/ DecodeCoordinateNumber
    \/ DecodeRealNumber
    \/ DecodeZeroToOneNumber
NumberSpec == NumberInit /\ [][NumberNext]_vars

---------------------------------------------------------------------------
(* Two calls of iconvg_decode, each with its own canvas, whose steps       *)
(* interleave. The variables hold the call that is running; ghost.parked   *)
(* holds every variable of the call that waits, and ghost.running tells    *)
(* which of the two calls runs. Everything a call works on is an argument  *)
(* or an automatic variable of iconvg_decode, iconvg_private_decode or     *)
(* iconvg_private_execute_bytecode; the only object of static storage is   *)
(* the const table adjustments (decoder.c:290).                            *)

\* The programs of the interleaved calls: one for every kind of step.
ConcurrentBytecode ==
    { <<63, 135, 130, 135, 131, 192, 128, 128, 225>>,
      <<5, 135, 127, 152, 1, 2, 3, 4, 193, 128, 128, 225>>,
      <<69, 168, 16, 176, 144, 184, 60, 175, 169, 1, 1, 185, 3, 0, 128, 63>>,
      <<199, 20, 40, 192, 128, 128, 0, 144, 144, 225>>,
      <<192, 128, 128, 96, 132, 132, 136, 128, 64, 144, 128, 225>>,
      <<192, 128, 128, 160, 130, 132, 134, 136, 138, 140, 128, 144, 144, 148, 128, 225>>,
      <<192, 128, 128, 192, 132, 132, 0, 2, 144, 144, 225>>,
      <<192, 128, 128, 226, 144, 144, 227, 130, 130, 225>>,
      <<192, 128, 128>>,
      <<192, 128, 128, 230, 144, 231, 130, 232, 144, 233, 130, 225>>,
      <<192, 128, 128, 224>>,
      <<0, 64, 127, 200>> }
ConcurrentRun ==
    { Run(File(<<SmallViewBox, SmallPalette>>, b), Arguments("user", Square(64), NoOptions, FALSE)) :
        b \in ConcurrentBytecode } \cup
    { Run(File(<<>>, <<>>), Arguments("unsupported", Square(64), NoOptions, FALSE)) }
\* The call that the others are interleaved with: it moves both selectors
\* and writes colour registers through them.
SelectingRun ==
    Run(File(<<SmallViewBox, SmallPalette>>, <<63, 135, 130, 135, 131, 192, 128, 128, 225>>),
        Arguments("null", Square(96), NoOptions, FALSE))
\* The same drawings written with relative and with absolute opcodes, from
\* (1, 1): 'l' twice and 'L' twice; 'q', 't' twice and 'Q', 'T' twice;
\* 'c', 's' and 'C', 'S'; 'h', 'v', 'z; m', 'l' and 'H', 'V', 'z; M', 'L'.
RelativePairs ==
    { << <<192, 130, 130, 33, 130, 130, 132, 132, 225>>,
         <<192, 130, 130, 1, 132, 132, 136, 136, 225>> >>,
      << <<192, 130, 130, 112, 130, 128, 132, 130, 81, 130, 130, 130, 126, 225>>,
         <<192, 130, 130, 96, 132, 130, 134, 132, 65, 136, 134, 138, 132, 225>> >>,
      << <<192, 130, 130, 176, 130, 128, 132, 128, 134, 130, 144, 130, 130, 132, 132, 225>>,
         <<192, 130, 130, 160, 132, 130, 134, 130, 136, 132, 128, 138, 134, 140, 136, 225>> >>,
      << <<192, 130, 130, 231, 132, 233, 130, 227, 130, 130, 32, 130, 130, 225>>,
         <<192, 130, 130, 230, 134, 232, 132, 226, 136, 134, 0, 138, 136, 225>> >> }
RelativeRun(b) == Run(File(<<>>, b), Arguments("user", Square(64), NoOptions, FALSE))
ConcurrentRuns ==
    { <<run, run>> : run \in ConcurrentRun } \cup
    { <<run, SelectingRun>> : run \in ConcurrentRun } \cup
    { <<RelativeRun(p[1]), RelativeRun(p[2])>> : p \in RelativePairs }

\* The variables of a call at its entry (as in Init).
Entered(run) ==
    [src |-> run.src, opts |-> run.opts, pc |-> "start",
     vb |-> [d |-> [ptr |-> 0, len |-> Len(run.src)], num_metadata_chunks |-> 0,
             use_default_viewbox |-> TRUE, previous_metadata_id |-> 0 - 1,
             dst_viewbox |-> CallerViewbox, ret |-> Running],
     d |-> [ptr |-> 0, len |-> Len(run.src)],
     md |-> [num_metadata_chunks |-> 0, previous_metadata_id |-> 0 - 1],
     state |-> NoPaint, ex |-> NoLocals, err_msg |-> NULL, ret |-> Running,
     calls |-> <<>>,
     ghost |-> [vb_reads |-> {}, vb_chunks |-> <<>>, reads |-> {}, chunks |-> <<>>]]

\* The variables of the call that is running.
RunningCall ==
    [src |-> src, opts |-> opts, pc |-> pc, vb |-> vb, d |-> d, md |-> md,
     state |-> state, ex |-> ex, err_msg |-> err_msg, ret |-> ret, calls |-> calls,
     ghost |-> [vb_reads |-> ghost.vb_reads, vb_chunks |-> ghost.vb_chunks,
                reads |-> ghost.reads, chunks |-> ghost.chunks]]

ConcurrentInit ==
    \E runs \in ConcurrentRuns :
        \E first \in {Entered(runs[1])}, second \in {Entered(runs[2])} :
            /\ src = first.src
            /\ opts = first.opts
            /\ pc = first.pc
            /\ vb = first.vb
            /\ d = first.d
            /\ md = first.md
            /\ state = first.state
            /\ ex = first.ex
            /\ err_msg = first.err_msg
            /\ ret = first.ret
            /\ calls = first.calls
            /\ ghost = [vb_reads |-> {}, vb_chunks |-> <<>>, reads |-> {}, chunks |-> <<>>,
                        parked |-> second, running |-> 1]

\* The two functions as they run on their own, on the programs above, on
\* the files of broken framing (2^30 - 1 chunks declared among them) and
\* on every opcode, every callback returning.
TerminationRuns ==
    ConcurrentRun \cup
    { Run(f, Arguments("user", Square(64), NoOptions, FALSE)) :
        f \in BadMagicFiles \cup BrokenFramingFiles \cup OpcodeFiles \cup SegmentFiles }
TerminationInit ==
    \E run \in TerminationRuns :
        \E first \in {Entered(run)} :
            /\ src = first.src
            /\ opts = first.opts
            /\ pc = first.pc
            /\ vb = first.vb
            /\ d = first.d
            /\ md = first.md
            /\ state = first.state
            /\ ex = first.ex
            /\ err_msg = first.err_msg
            /\ ret = first.ret
            /\ calls = first.calls
            /\ ghost = first.ghost
\* The steps that decode a metadata chunk or the coordinates of a path
\* segment, and where such a step can be taken.  One of them is enabled
\* exactly where DecodesAhead holds, so that weak fairness of DecodingStep,
\* WF_vars(DecodingStep), is []<>~DecodesAhead \/ []<><<DecodingStep>>_vars.
DecodingStep ==
    \/ DecodeViewboxChunk
    \/ PrivateDecodeChunk
    \/ PathLineTo
    \/ PathQuadTo
    \/ PathCubeTo
    \/ PathArcTo
    \/ ClosePathMoveTo
DecodesAhead ==
    \/ (pc = "viewbox_chunks") /\ (vb.num_metadata_chunks > 0)
    \/ (pc = "metadata") /\ (md.num_metadata_chunks > 0)
    \/ pc = "reps"
    \/ (pc = "drawing") /\ (d.len > 0) /\ (Opcode \in {226, 227})
OtherStep ==
    \/ DecodeViewboxHeader
    \/ DecodeViewboxFinish
    \/ DecodeUnsupportedVtable
    \/ BeginDecode
    \/ PrivateDecodeHeader
    \/ OnMetadataViewbox
    \/ OnMetadataSuggestedPalette
    \/ StylingEnd
    \/ SetSelector
    \/ SetColorRegister
    \/ SetNumberRegister
    \/ BeginDrawing
    \/ SetLevelOfDetail
    \/ BadStylingOpcode
    \/ DrawingEnd
    \/ DrawingRepeat
    \/ ClosePath
    \/ HorizontalVerticalLineTo
    \/ BadDrawingOpcode
    \/ EndDecode
\* A call runs on until it returns: the thread that made it takes the next
\* step of the function whenever there is one.
TerminationFairness ==
    /\ WF_vars(OtherStep)
    /\ ([]<>(~DecodesAhead) \/ []<><<DecodingStep>>_vars)
TerminationSpec == TerminationInit /\ [][Next]_vars /\ TerminationFairness

\* The selectors as an object of static storage, shared by the two calls.
Resumed__static_sel(waiting, switched_out) ==
    [waiting EXCEPT !.ex.sel = switched_out.ex.sel]

\* What a call resumes with when the other call is switched out: its
\* arguments and the automatic variables of its own activation.
Resumed(waiting, switched_out) == waiting

\* The running call is switched out and the waiting call, which has not
\* returned, runs on.
ContextSwitch ==
    /\ ghost.parked.pc # "returned"
    /\ \E out \in {RunningCall} :
        \E in \in {Resumed(ghost.parked, out)} :
            /\ src' = in.src
            /\ opts' = in.opts
            /\ pc' = in.pc
            /\ vb' = in.vb
            /\ d' = in.d
            /\ md' = in.md
            /\ state' = in.state
            /\ ex' = in.ex
            /\ err_msg' = in.err_msg
            /\ ret' = in.ret
            /\ calls' = in.calls
            /\ ghost' = [vb_reads |-> in.ghost.vb_reads, vb_chunks |-> in.ghost.vb_chunks,
                         reads |-> in.ghost.reads, chunks |-> in.ghost.chunks,
                         parked |-> out, running |-> 3 - ghost.running]

ConcurrentNext ==
    \/ ContextSwitch
    \/ Next

ConcurrentSpec == ConcurrentInit /\ [][ConcurrentNext]_vars

---------------------------------------------------------------------------
(* The selectors on their own, at their full width. sel[k] is a uint32_t   *)
(* (decoder.c:333); here it is held as its two 16-bit halves, so that the  *)
(* values around 2^32, which a long enough run of auto-incrementing writes *)
(* reaches, are computed as the unsigned arithmetic of C computes them.    *)
(* ex.sel holds the two stored selectors; ghost holds the selectors of an  *)
(* interpreter that reduces a selector modulo 64 at every increment, the   *)
(* register index each of the two computed at the last opcode, which of   *)
(* the two selectors the opcodes of the run go by, and whether an          *)
(* increment has taken a stored selector from 2^32 - 1 to 0.               *)

Half == 65536
uint32_t(hi, lo) == [hi |-> hi, lo |-> lo]
\* v + 1 and v - a (0 <= a < 65536) in uint32_t: modulo 2^32.
uint32_t__increment__saturating(v) ==
    IF v.lo + 1 < Half THEN uint32_t(v.hi, v.lo + 1)
    ELSE IF v.hi + 1 < Half THEN uint32_t(v.hi + 1, 0) ELSE v
uint32_t__increment(v) ==
    IF v.lo + 1 < Half THEN uint32_t(v.hi, v.lo + 1)
    ELSE uint32_t((v.hi + 1) % Half, 0)
uint32_t__minus(v, a) ==
    IF v.lo >= a THEN uint32_t(v.hi, v.lo - a)
    ELSE uint32_t((v.hi + Half - 1) % Half, (v.lo + Half) - a)
\* uint8_t index = (sel[k] - adjustments[opcode & 0x07]) & 0x3F.
execute_bytecode__register_index(sel_k, opcode) ==
    uint32_t__minus(sel_k, adjustments[(opcode % 8) + 1]).lo % 64
\* sel[k] += ((opcode & 0x07) == 0x07) ? 1 : 0.
execute_bytecode__selector_after(sel_k, opcode) ==
    IF opcode % 8 = 7 THEN uint32_t__increment(sel_k) ELSE sel_k

\* The stored selector at the start: zero as execute_bytecode starts it, or
\* what 2^32 - 3 auto-incrementing writes have left; and how far a run of
\* auto-incrementing writes takes it.
MaxSelector == 130
SelectorsBefore == { uint32_t(0, 0), uint32_t(Half - 1, Half - 3) }
SelectorBounded(v) == (v.hi = Half - 1) \/ (v.lo < MaxSelector)
\* Set-selector opcodes, and register-write and begin-path opcodes of every
\* adjustment, by the selector they go by.
SetSelectorOpcodes == <<{0, 62, 63}, {64, 126, 127}>>
RegisterOpcodes == <<128..135 \cup 192..198, 184..191>>

SelectorInit ==
    /\ \E v \in SelectorsBefore, k \in 1..2 :
        /\ ex = [NoLocals EXCEPT !.sel = <<v, v>>]
        /\ ghost = [reference |-> <<v.lo % 64, v.lo % 64>>, index |-> 0, reference_index |-> 0,
                    kind |-> k, wrapped |-> FALSE]
    /\ src = <<>>
    /\ opts = Arguments("null", Square(64), NoOptions, FALSE)
    /\ pc = "selectors"
    /\ vb = [d |-> [ptr |-> 0, len |-> 0], num_metadata_chunks |-> 0,
             use_default_viewbox |-> TRUE, previous_metadata_id |-> 0 - 1,
             dst_viewbox |-> CallerViewbox, ret |-> Running]
    /\ d = [ptr |-> 0, len |-> 0]
    /\ md = [num_metadata_chunks |-> 0, previous_metadata_id |-> 0 - 1]
    /\ state = NoPaint
    /\ err_msg = NULL
    /\ ret = Running
    /\ calls = <<>>

\* opcode < 0x80: sel[opcode >> 6] = opcode & 0x3F, in both interpreters.
SelectorSet ==
    /\ pc = "selectors"
    /\ \E opcode \in SetSelectorOpcodes[ghost.kind] :
        /\ ex' = [ex EXCEPT !.sel[(opcode \div 64) + 1] = uint32_t(0, opcode % 64)]
        /\ ghost' = [ghost EXCEPT !.reference[(opcode \div 64) + 1] = opcode % 64]
    /\ UNCHANGED <<src, opts, pc, vb, d, md, state, err_msg, ret, calls>>

\* A register-write or begin-path opcode: the index computed, and the
\* selector after it, in both interpreters.
SelectorUsed ==
    /\ pc = "selectors"
    /\ \E opcode \in RegisterOpcodes[ghost.kind] :
        \E k \in {IF (opcode >= 168) /\ (opcode < 192) THEN 2 ELSE 1} :
            /\ SelectorBounded(ex.sel[k])
            /\ ex' = [ex EXCEPT !.sel[k] = IF opcode < 192
                                           THEN execute_bytecode__selector_after(@, opcode)
                                           ELSE @]
            /\ ghost' = [ghost EXCEPT
                    !.index = execute_bytecode__register_index(ex.sel[k], opcode),
                    !.reference_index = (ghost.reference[k] + 64 - adjustments[(opcode % 8) + 1]) % 64,
                    !.reference[k] = IF (opcode < 192) /\ (opcode % 8 = 7) THEN (@ + 1) % 64 ELSE @,
                    !.wrapped = @ \/ ((opcode < 192) /\ (opcode % 8 = 7) /\
                                      (ex.sel[k] = uint32_t(Half - 1, Half - 1)))]
    /\ UNCHANGED <<src, opts, pc, vb, d, md, state, err_msg, ret, calls>>

SelectorNext ==
    \/ SelectorSet
    \/ SelectorUsed

SelectorSpec == SelectorInit /\ [][SelectorNext]_vars

---------------------------------------------------------------------------
(* The blend of the indirect colour opcode 0xA0..0xA7 on its own: the      *)
(* blend byte is the one byte of src, the resolved colours p and q are in  *)
(* CREG[0] and CREG[1], and the blend is written to CREG[2].               *)

\* The bytes the blend byte and the channels of p and q are drawn from.
BlendBytes == {0, 1, 2, 127, 128, 129, 253, 254, 255}
BlendColors == { [j \in 0..3 |-> IF j = 3 THEN a ELSE c] : c \in BlendBytes, a \in {128, 255} }

BlendInit ==
    /\ \E t \in BlendBytes, p \in BlendColors, q \in BlendColors :
        /\ src = <<t>>
        /\ state = [NoPaint EXCEPT !.creg[0] = p, !.creg[1] = q]
    /\ opts = Arguments("null", Square(64), NoOptions, FALSE)
    /\ pc = "blend"
    /\ vb = [d |-> [ptr |-> 0, len |-> 0], num_metadata_chunks |-> 0,
             use_default_viewbox |-> TRUE, previous_metadata_id |-> 0 - 1,
             dst_viewbox |-> CallerViewbox, ret |-> Running]
    /\ d = [ptr |-> 0, len |-> Len(src)]
    /\ md = [num_metadata_chunks |-> 0, previous_metadata_id |-> 0 - 1]
    /\ ex = NoLocals
    /\ err_msg = NULL
    /\ ret = Running
    /\ calls = <<>>
    /\ ghost = [vb_reads |-> {}, vb_chunks |-> <<>>, reads |-> {}, chunks |-> <<>>]

\* Lines 419-426: q_blend = d->ptr[0], and the four channels of the blend.
Blend ==
    /\ pc = "blend"
    /\ state' = [state EXCEPT !.creg[2] =
                    execute_bytecode__blend(PtrByte(d, 0), state.creg[0], state.creg[1])]
    /\ d' = Advance(d, 1)
    /\ ghost' = Read(1)
    /\ pc' = "blended"
    /\ UNCHANGED <<src, opts, vb, md, ex, err_msg, ret, calls>>

BlendSpec == BlendInit /\ [][Blend]_vars

---------------------------------------------------------------------------
(* Properties of iconvg_decode and iconvg_decode_viewbox.                  *)

Returned == pc = "returned"
ViewboxReturned == pc \notin {"start", "viewbox_chunks"}
LastCall == calls[Len(calls)]
\* iconvg_decode got as far as iconvg_private_decode: the vtable is
\* supported and begin_decode returned NULL.
DecodeStarted == (calls # <<>>) /\ (calls[1].ret = NULL)

\* C1: every call of iconvg_decode, whatever the canvas vtable, the source
\* bytes and the options, makes exactly one begin_decode callback, as its
\* first callback, and exactly one end_decode callback, as its last.
C1_BeginDecodeFirstEndDecodeLast ==
    Returned =>
        /\ Len(calls) >= 2
        /\ calls[1].name = "begin_decode"
        /\ LastCall.name = "end_decode"
        /\ \A i \in 2..Len(calls) : calls[i].name # "begin_decode"
        /\ \A i \in 1..(Len(calls) - 1) : calls[i].name # "end_decode"

\* C2: once a file format error is detected or a callback other than
\* end_decode returns a non-NULL error, the only callback that follows is
\* end_decode, end_decode's err_msg is exactly that error, and iconvg_decode
\* returns what end_decode returns.
C2_FailedCallbackIsLast ==
    \A i \in 1..Len(calls) :
        ((calls[i].name # "end_decode") /\ (calls[i].ret # NULL)) =>
            \/ (i = Len(calls)) /\ (pc = "end_decode") /\ (err_msg = calls[i].ret)
            \/ /\ i + 1 = Len(calls)
               /\ Returned
               /\ LastCall.name = "end_decode"
               /\ LastCall.args[1] = calls[i].ret
C2_FormatErrorEndsTheParse ==
    /\ (err_msg # NULL) => (pc \in {"end_decode", "returned"})
    /\ ((ghost.chunks # <<>>) /\ (ghost.chunks[Len(ghost.chunks)].err # NULL)) =>
           (err_msg = ghost.chunks[Len(ghost.chunks)].err)
C2_ReturnsWhatEndDecodeReturns ==
    (Returned /\ (calls # <<>>)) =>
        /\ LastCall.name = "end_decode"
        /\ LastCall.args[1] = err_msg
        /\ ret = LastCall.ret
C2_OnlyEndDecodeFollows ==
    ((err_msg # NULL) /\ (pc = "end_decode")) =>
        /\ calls' = Append(calls, calls'[Len(calls')])
        /\ calls'[Len(calls')].name = "end_decode"
        /\ calls'[Len(calls')].args[1] = err_msg
        /\ ret' = calls'[Len(calls')].ret
        /\ pc' = "returned"
C2_ErrorShortCircuitsToEndDecode ==
    /\ [](C2_FailedCallbackIsLast /\ C2_FormatErrorEndsTheParse
            /\ C2_ReturnsWhatEndDecodeReturns)
    /\ [][C2_OnlyEndDecodeFollows]_vars

\* A path_line_to callback failed; end_decode was handed its error and
\* returned NULL, which iconvg_decode returned.
C2_Witness ==
    /\ Returned
    /\ Len(calls) >= 3
    /\ calls[Len(calls) - 1].name = "path_line_to"
    /\ calls[Len(calls) - 1].ret = CanvasError
    /\ LastCall.args[1] = CanvasError
    /\ ret = NULL

\* C3: on an input shorter than four bytes or whose first four bytes are
\* not 89 49 56 47, iconvg_decode_viewbox returns bad_magic_identifier, and
\* iconvg_decode, when begin_decode succeeds, hands bad_magic_identifier to
\* end_decode with no other callback and no byte consumed.
BadMagic == (Len(src) < 4) \/ (SubSeq(src, 1, 4) # MagicIdentifier)
C3_BadMagicIdentifier ==
    BadMagic =>
        /\ ViewboxReturned => (vb.ret = iconvg_error_bad_magic_identifier)
        /\ \A i \in 1..Len(calls) : calls[i].name \in {"begin_decode", "end_decode"}
        /\ (Returned /\ DecodeStarted) =>
               /\ Len(calls) = 2
               /\ LastCall.name = "end_decode"
               /\ LastCall.args = <<iconvg_error_bad_magic_identifier, 0, Len(src)>>

\* Four bytes of which only the last is wrong, decoded on a caller's canvas.
C3_Witness ==
    /\ Returned
    /\ DecodeStarted
    /\ Len(src) >= 4
    /\ SubSeq(src, 1, 3) = SubSeq(MagicIdentifier, 1, 3)
    /\ BadMagic
    /\ opts.canvas = "user"
    /\ vb.ret = iconvg_error_bad_magic_identifier
    /\ LastCall.args[1] = iconvg_error_bad_magic_identifier


\* The metadata as the file format frames it, read from src alone:
\* [ok, chunks, broken].  chunks holds, for every chunk up to the first
\* whose chunk_length or metadata_id cannot be taken, the offset after its
\* chunk_length, the chunk_length, the id and the bytes the id takes;
\* broken tells what could not be taken.
NaturalAt(p, end) ==
    iconvg_private_decoder__decode_natural_number([ptr |-> p, len |-> end - p], 0)
Frame(cl, id) ==
    [at |-> cl.self.ptr, chunk_length |-> cl.dst, id |-> id.dst, id_len |-> id.rd]
Unframed(why) == [ok |-> FALSE, chunks |-> <<>>, broken |-> why]
RECURSIVE Frames(_, _)
FramesJoined(f, rest) ==
    [ok |-> rest.ok, chunks |-> <<f>> \o rest.chunks, broken |-> rest.broken]
FramesFromId(cl, id, n) ==
    IF ~id.ok THEN Unframed("id")
    ELSE FramesJoined(Frame(cl, id), Frames(cl.self.ptr + cl.dst, n - 1))
FramesFromLength(cl, n) ==
    IF ~cl.ok \/ (cl.dst > cl.self.len) THEN Unframed("length")
    ELSE FramesFromId(cl, NaturalAt(cl.self.ptr, cl.self.ptr + cl.dst), n)
Frames(p, n) ==
    IF n = 0 THEN [ok |-> TRUE, chunks |-> <<>>, broken |-> "nothing"]
    ELSE FramesFromLength(NaturalAt(p, Len(src)), n)
FramesFromCount(n) == IF ~n.ok THEN Unframed("count") ELSE Frames(n.self.ptr, n.dst)
FileFrames == IF BadMagic THEN Unframed("magic") ELSE FramesFromCount(NaturalAt(4, Len(src)))
FrameIds == [i \in 1..Len(FileFrames.chunks) |-> FileFrames.chunks[i].id]
StrictlyIncreasing(ids) == \A i \in 2..Len(ids) : ids[i - 1] < ids[i]

\* The bytes of a chunk after its id.
Payload(f) == [ptr |-> f.at + f.id_len, len |-> f.chunk_length - f.id_len]
\* A chunk of id 1 whose spec byte is followed by exactly n * bytes_per_elem
\* bytes.
PaletteColors(f) == 1 + (PtrByte(Payload(f), 0) % 64)
PaletteBytesPerElem(f) == 1 + (PtrByte(Payload(f), 0) \div 64)
WellFormedPalette(f) ==
    /\ f.id = 1
    /\ Payload(f).len >= 1
    /\ Payload(f).len - 1 = PaletteColors(f) * PaletteBytesPerElem(f)

\* The first n chunks were accepted by iconvg_decode_viewbox, by
\* iconvg_private_decode.
ViewboxAccepted(n) ==
    (Len(ghost.vb_chunks) >= n) /\ (\A j \in 1..n : ghost.vb_chunks[j].err = NULL)
DecodeAccepted(n) ==
    (Len(ghost.chunks) >= n) /\ (\A j \in 1..n : ghost.chunks[j].err = NULL)

\* C4: for a file whose metadata is well framed and holds no chunk of id 0
\* (so also with num_metadata_chunks = 0), iconvg_decode_viewbox returns
\* NULL and sets *dst_viewbox to (-32, -32, +32, +32), and iconvg_decode
\* calls on_metadata_viewbox with that rectangle.  Well framed is read as
\* accepted by the function's metadata parser: ids in increasing order for
\* iconvg_decode_viewbox, and for iconvg_decode, once begin_decode has
\* succeeded, chunks that are well-formed Suggested Palettes.
NoViewBoxChunk == FileFrames.ok /\ (\A i \in 1..Len(FrameIds) : FrameIds[i] # 0)
OnlyPalettes == \A i \in 1..Len(FrameIds) : WellFormedPalette(FileFrames.chunks[i])
RectangleOrdered(r) == F32Le(r.min_x, r.max_x) /\ F32Le(r.min_y, r.max_y)
MalformedCoordinates(dc) ==
    \/ ~dc.ok
    \/ dc.self.len # 0
    \/ F32Lt(dc.v[3], dc.v[1])
    \/ F32Lt(dc.v[4], dc.v[2])
ViewBoxChunkFirst == (FileFrames.chunks # <<>>) /\ (FileFrames.chunks[1].id = 0)
MalformedViewBoxChunk ==
    /\ ViewBoxChunkFirst
    /\ MalformedCoordinates(DecodeCoordinates(Payload(FileFrames.chunks[1]), 4))
C5_ViewBoxOrdered ==
    /\ (ViewboxReturned /\ (vb.ret = NULL) /\ ~opts.null_dst_viewbox) =>
           RectangleOrdered(vb.dst_viewbox)
    /\ \A i \in 1..Len(calls) :
           (calls[i].name = "on_metadata_viewbox") => RectangleOrdered(calls[i].args[1])
    /\ MalformedViewBoxChunk =>
           /\ ViewboxReturned => (vb.ret = iconvg_error_bad_metadata_viewbox)
           /\ (Returned /\ DecodeStarted) =>
                  /\ Len(calls) = 2
                  /\ LastCall.args[1] = iconvg_error_bad_metadata_viewbox

\* Four coordinates and nothing after them, with min_y above max_y.
C5_Witness ==
    /\ Returned
    /\ DecodeStarted
    /\ ViewBoxChunkFirst
    /\ DecodeCoordinates(Payload(FileFrames.chunks[1]), 4).ok
    /\ DecodeCoordinates(Payload(FileFrames.chunks[1]), 4).self.len = 0
    /\ F32Lt(DecodeCoordinates(Payload(FileFrames.chunks[1]), 4).v[4],
             DecodeCoordinates(Payload(FileFrames.chunks[1]), 4).v[2])
    /\ vb.ret = iconvg_error_bad_metadata_viewbox
    /\ LastCall.args[1] = iconvg_error_bad_metadata_viewbox

\* C6: iconvg_decode_viewbox fails with bad_metadata_id_order on a chunk
\* whose id is at most the id of the chunk before it, when it accepted all
\* the chunks before; the ids of a file it accepts are strictly increasing.
C6_ViewboxIdOrder ==
    ViewboxReturned =>
        /\ (\E k \in 2..Len(FrameIds) :
                (FrameIds[k] <= FrameIds[k - 1]) /\ ViewboxAccepted(k - 1)) =>
               (vb.ret = iconvg_error_bad_metadata_id_order)
        /\ (vb.ret = NULL) => (FileFrames.ok /\ StrictlyIncreasing(FrameIds))

\* Two chunks of the same non-zero id.
C6_Witness ==
    /\ ViewboxReturned
    /\ Len(FrameIds) = 2
    /\ FrameIds[1] = FrameIds[2]
    /\ FrameIds[1] > 0
    /\ ViewboxAccepted(1)
    /\ vb.ret = iconvg_error_bad_metadata_id_order

\* C7: iconvg_decode, on a file of two well-framed chunks of ids 5 and then
\* 3, fails with bad_metadata_id_order.
Ids5Then3 == FileFrames.ok /\ (FrameIds = <<5, 3>>)
C7_FullDecodeIdOrder ==
    (Ids5Then3 /\ Returned /\ DecodeStarted) =>
        (LastCall.args[1] = iconvg_error_bad_metadata_id_order)

\* C7, amended: iconvg_decode, on a file of two well-framed chunks of ids 5
\* and then 3, fails with bad_metadata, as it rejects id 5 before it reads
\* the second chunk; iconvg_decode_viewbox fails on that file with
\* bad_metadata_id_order.
C7_FullDecodeRejectsFirstId ==
    Ids5Then3 =>
        /\ (Returned /\ DecodeStarted) =>
               /\ Len(calls) = 2
               /\ LastCall.args[1] = iconvg_error_bad_metadata
               /\ Len(ghost.chunks) = 1
        /\ ViewboxReturned => (vb.ret = iconvg_error_bad_metadata_id_order)

C7_Witness ==
    /\ Ids5Then3
    /\ Returned
    /\ DecodeStarted
    /\ LastCall.name = "end_decode"
    /\ LastCall.args[1] = iconvg_error_bad_metadata
    /\ vb.ret = iconvg_error_bad_metadata_id_order

\* C8: in both functions a chunk whose chunk_length is more than the bytes
\* left after it, or whose chunk_length cannot be read, fails with
\* bad_metadata when the parser gets to it, and no byte past the end of the
\* input is read.
InputOffsets == 0..(Len(src) - 1)
LengthBroken == FileFrames.broken = "length"
C8_ChunkLengthChecked ==
    /\ ghost.vb_reads \subseteq InputOffsets
    /\ ghost.reads \subseteq InputOffsets
    /\ LengthBroken =>
           /\ (ViewboxReturned /\ ViewboxAccepted(Len(FrameIds))) =>
                  (vb.ret = iconvg_error_bad_metadata)
           /\ (Returned /\ DecodeStarted /\ DecodeAccepted(Len(FrameIds))) =>
                  /\ Len(calls) = 2
                  /\ LastCall.args[1] = iconvg_error_bad_metadata

\* An accepted Suggested Palette followed by a chunk_length too large.
C8_Witness ==
    /\ LengthBroken
    /\ Len(FrameIds) = 1
    /\ NaturalAt(FileFrames.chunks[1].at + FileFrames.chunks[1].chunk_length, Len(src)).ok
    /\ Returned
    /\ DecodeStarted
    /\ DecodeAccepted(1)
    /\ LastCall.args[1] = iconvg_error_bad_metadata
    /\ vb.ret = iconvg_error_bad_metadata

\* C9: iconvg_decode fails with bad_metadata on a chunk whose id is neither
\* 0 nor 1; iconvg_decode_viewbox accepts a chunk whose id is not 0 and is
\* above the id before it, reads none of its payload and moves its cursor
\* by exactly chunk_length.
OffsetsOf(c) == Span(c.ptr, c.len)
AfterChunk(f) ==
    [ptr |-> f.at + f.chunk_length, len |-> Len(src) - (f.at + f.chunk_length)]
C9_UnknownIds ==
    \A k \in 1..Len(FrameIds) :
        /\ ((FrameIds[k] \notin {0, 1}) /\ DecodeAccepted(k - 1)
                /\ Returned /\ DecodeStarted) =>
               /\ Len(ghost.chunks) = k
               /\ Len(calls) = 2
               /\ LastCall.args[1] = iconvg_error_bad_metadata
        /\ ((FrameIds[k] # 0) /\ ((k = 1) \/ (FrameIds[k - 1] < FrameIds[k]))
                /\ ViewboxAccepted(k - 1) /\ (Len(ghost.vb_chunks) >= k)) =>
               /\ ghost.vb_chunks[k].err = NULL
               /\ ghost.vb_reads \cap OffsetsOf(Payload(FileFrames.chunks[k])) = {}
               /\ (Len(ghost.vb_chunks) = k) => (vb.d = AfterChunk(FileFrames.chunks[k]))

\* Chunks of ids 3 and 5 whose payloads are no numbers.
C9_Witness ==
    /\ Returned
    /\ DecodeStarted
    /\ FrameIds = <<3, 5>>
    /\ Payload(FileFrames.chunks[1]).len = 2
    /\ Payload(FileFrames.chunks[2]).len = 1
    /\ vb.ret = NULL
    /\ vb.d = AfterChunk(FileFrames.chunks[2])
    /\ LastCall.args[1] = iconvg_error_bad_metadata

\* C10: iconvg_decode accepts a Suggested Palette chunk (id 1) of n =
\* (spec & 0x3F) + 1 colours of bytes_per_elem = (spec >> 6) + 1 bytes only
\* when exactly n * bytes_per_elem bytes follow the spec byte, and fails
\* with bad_metadata_suggested_palette otherwise; an accepted chunk
\* overwrites entries 0..n-1 of the custom palette and leaves entries n..63
\* as they were, opaque black.
PaletteAfter(f) ==
    [i \in 0..(PaletteSize - 1) |->
        IF i < PaletteColors(f)
        THEN SuggestedPaletteColor(PaletteBytesPerElem(f), Payload(f).ptr + 1, i)
        ELSE OpaqueBlack]
C10_SuggestedPalette ==
    \A k \in 1..Len(FrameIds) :
        ((FrameIds[k] = 1) /\ ((k = 1) \/ (FrameIds[k - 1] < 1))
            /\ DecodeAccepted(k - 1) /\ (Len(ghost.chunks) >= k)) =>
            IF WellFormedPalette(FileFrames.chunks[k])
            THEN /\ ghost.chunks[k].err = NULL
                 /\ ((Len(ghost.chunks) = k) /\ (pc \in {"metadata", "metadata_palette"})) =>
                        (state.custom_palette = PaletteAfter(FileFrames.chunks[k]))
                 /\ \A i \in 1..Len(calls) :
                        (calls[i].name = "on_metadata_suggested_palette") =>
                            (calls[i].args = <<PaletteAfter(FileFrames.chunks[k])>>)
            ELSE /\ err_msg = iconvg_error_bad_metadata_suggested_palette
                 /\ Returned =>
                        /\ Len(calls) = 2
                        /\ LastCall.args[1] = iconvg_error_bad_metadata_suggested_palette

\* Two one-byte colours, the first from the built-in table.
C10_Witness ==
    /\ Returned
    /\ FrameIds = <<1>>
    /\ WellFormedPalette(FileFrames.chunks[1])
    /\ PaletteColors(FileFrames.chunks[1]) = 2
    /\ Len(calls) >= 3
    /\ calls[3].name = "on_metadata_suggested_palette"
    /\ calls[3].args[1][0] # OpaqueBlack
    /\ calls[3].args[1][2] = OpaqueBlack
    /\ calls[3].args[1][PaletteSize - 1] = OpaqueBlack

\* The callbacks of the given name, as indices into calls.
CallsOf(name) == { i \in 1..Len(calls) : calls[i].name = name }
\* No callback but end_decode has failed.
NoCallbackFailed ==
    \A i \in 1..Len(calls) : (calls[i].name # "end_decode") => (calls[i].ret = NULL)
\* The metadata as the file format wants it: well framed, ids increasing,
\* a well-formed ViewBox or Suggested Palette in every chunk.
WellFormedViewBox(f) ==
    /\ f.id = 0
    /\ ~MalformedCoordinates(DecodeCoordinates(Payload(f), 4))
    /\ ViewBoxInRange(Rectangle(DecodeCoordinates(Payload(f), 4).v[1],
                                DecodeCoordinates(Payload(f), 4).v[2],
                                DecodeCoordinates(Payload(f), 4).v[3],
                                DecodeCoordinates(Payload(f), 4).v[4]))
MetadataValid ==
    /\ FileFrames.ok
    /\ StrictlyIncreasing(FrameIds)
    /\ \A i \in 1..Len(FrameIds) :
           WellFormedViewBox(FileFrames.chunks[i]) \/ WellFormedPalette(FileFrames.chunks[i])

\* C11: in a call of iconvg_decode, on_metadata_viewbox and
\* on_metadata_suggested_palette are each called at most once, the first
\* before the second, only once every metadata chunk was parsed without
\* error, and before any begin_drawing; with valid metadata and no failing
\* callback each is called exactly once.
C11_MetadataCallbacks ==
    /\ Cardinality(CallsOf("on_metadata_viewbox")) <= 1
    /\ Cardinality(CallsOf("on_metadata_suggested_palette")) <= 1
    /\ \A i \in CallsOf("on_metadata_viewbox") :
           /\ i = 2
           /\ FileFrames.ok
           /\ md.num_metadata_chunks = 0
           /\ Len(ghost.chunks) = Len(FrameIds)
           /\ DecodeAccepted(Len(FrameIds))
    /\ \A j \in CallsOf("on_metadata_suggested_palette") :
           (j = 3) /\ (calls[2].name = "on_metadata_viewbox")
    /\ \A k \in CallsOf("begin_drawing") :
           (k > 3) /\ (calls[3].name = "on_metadata_suggested_palette")
    /\ (Returned /\ DecodeStarted /\ MetadataValid /\ NoCallbackFailed) =>
           /\ Cardinality(CallsOf("on_metadata_viewbox")) = 1
           /\ Cardinality(CallsOf("on_metadata_suggested_palette")) = 1

\* A ViewBox and a Suggested Palette chunk, then a drawing, on a caller's
\* canvas none of whose callbacks fails.
C11_Witness ==
    /\ Returned
    /\ DecodeStarted
    /\ opts.canvas = "user"
    /\ MetadataValid
    /\ FrameIds = <<0, 1>>
    /\ NoCallbackFailed
    /\ CallsOf("on_metadata_viewbox") = {2}
    /\ CallsOf("on_metadata_suggested_palette") = {3}
    /\ CallsOf("begin_drawing") = {4}

\* The file's palette: the default palette with the colours of the file's
\* Suggested Palette chunk, if it has one, laid over it.
PalettesOf(base) ==
    { [i \in 0..(PaletteSize - 1) |->
          IF i < PaletteColors(FileFrames.chunks[k])
          THEN SuggestedPaletteColor(PaletteBytesPerElem(FileFrames.chunks[k]),
                                     Payload(FileFrames.chunks[k]).ptr + 1, i)
          ELSE base[i]] : k \in { j \in 1..Len(FrameIds) : FrameIds[j] = 1 } }
FilePalette ==
    IF PalettesOf(iconvg_private_default_palette) = {} THEN iconvg_private_default_palette
    ELSE CHOOSE p \in PalettesOf(iconvg_private_default_palette) : TRUE
PaletteSupplied == opts.options.non_null /\ opts.options.palette.non_null

\* C12: on_metadata_suggested_palette receives the file's palette whether
\* or not options.palette is supplied; the interpreter starts with CREG
\* holding options.palette when it is supplied and the file's palette when
\* it is not, and with every NREG zero.
C12_PaletteCallback ==
    \A i \in CallsOf("on_metadata_suggested_palette") : calls[i].args = <<FilePalette>>
C12_Registers ==
    ((pc = "metadata_palette") /\ (pc' = "styling")) =>
        /\ calls' = Append(calls, calls'[Len(calls')])
        /\ calls'[Len(calls')].name = "on_metadata_suggested_palette"
        /\ calls'[Len(calls')].args = <<FilePalette>>
        /\ state'.creg = IF PaletteSupplied THEN opts.options.palette.colors ELSE FilePalette
        /\ state'.nreg = [i \in 0..(PaletteSize - 1) |-> 0]
C12_OptionsPalette == []C12_PaletteCallback /\ [][C12_Registers]_vars

\* A file with a Suggested Palette decoded with a palette of the caller's:
\* the callback got the file's colour, the registers the caller's.
C12_Witness ==
    /\ pc = "styling"
    /\ Len(calls) = 3
    /\ PaletteSupplied
    /\ FrameIds = <<1>>
    /\ calls[3].args[1] = FilePalette
    /\ calls[3].args[1][0] # opts.options.palette.colors[0]
    /\ state.creg = opts.options.palette.colors
    /\ state.creg # FilePalette
    /\ \A i \in 0..(PaletteSize - 1) : state.nreg[i] = 0

\* The callbacks a canvas has observed, in order.
Observed(to) == SelectSeq(calls, LAMBDA cb : cb.to = to)

\* How far a sequence of callbacks has the drawing and the path open:
\* "closed" outside any drawing, "drawing" inside one with no path open,
\* "path" inside one with a path open, "bad" once a callback came out of
\* place.
BracketStep(s, name) ==
    CASE name = "begin_drawing" -> IF s = "closed" THEN "drawing" ELSE "bad"
      [] name = "begin_path" -> IF s = "drawing" THEN "path" ELSE "bad"
      [] name \in {"path_line_to", "path_quad_to", "path_cube_to"} ->
            IF s = "path" THEN "path" ELSE "bad"
      [] name = "end_path" -> IF s = "path" THEN "drawing" ELSE "bad"
      [] name = "end_drawing" -> IF s = "drawing" THEN "closed" ELSE "bad"
      [] OTHER -> s
RECURSIVE BracketAfter(_, _)
BracketAfter(cs, n) ==
    IF n = 0 THEN "closed" ELSE BracketStep(BracketAfter(cs, n - 1), cs[n].name)
Bracket(cs) == BracketAfter(cs, Len(cs))

\* The positions in cs of the callbacks called name.
Positions(cs, name) == { i \in 1..Len(cs) : cs[i].name = name }

\* Whether the begin_path at i of cs has its end_path: one at some j after
\* it with no begin_path and no other end_path in between, the two inside
\* one begin_drawing and its end_drawing.
PathClosed(cs, i) ==
    \E j \in Positions(cs, "end_path") :
        /\ i < j
        /\ \A k \in (i + 1)..(j - 1) : cs[k].name \notin {"begin_path", "end_path"}
        /\ \E b \in Positions(cs, "begin_drawing"), e \in Positions(cs, "end_drawing") :
            /\ b < i
            /\ j < e
            /\ \A k \in (b + 1)..(e - 1) : cs[k].name \notin {"begin_drawing", "end_drawing"}

\* C13 as stated: once iconvg_decode has returned, whatever the input, and
\* with no callback having failed, every begin_path the canvas observed is followed by exactly one end_path
\* before any other begin_path, the pair between a begin_drawing and its
\* end_drawing.
C13_EveryPathClosed ==
    (Returned /\ NoCallbackFailed) => \A i \in Positions(Observed("user"), "begin_path") :
                    PathClosed(Observed("user"), i)

\* C13, amended: the callbacks a canvas observes never come out of place
\* (an end_path only with a path open, a begin_path only inside a drawing
\* with no path open, an end_drawing only with the path closed), and a
\* decode that hands end_decode no error has closed every begin_path with
\* its one end_path inside its drawing; a decode that fails stops at the
\* error and may leave the last begin_path open.
C13_PathBracketing ==
    /\ Bracket(Observed("user")) # "bad"
    /\ (Returned /\ DecodeStarted /\ LastCall.args[1] = NULL) =>
            /\ Bracket(Observed("user")) = "closed"
            /\ \A i \in Positions(Observed("user"), "begin_path") :
                    PathClosed(Observed("user"), i)

\* A decode without error in which the canvas observed two paths in one
\* drawing, each closed.
C13_Witness ==
    /\ Returned
    /\ DecodeStarted
    /\ LastCall.args[1] = NULL
    /\ Cardinality(Positions(Observed("user"), "begin_path")) >= 2
    /\ Cardinality(Positions(Observed("user"), "begin_drawing")) = 1
    /\ \A i \in Positions(Observed("user"), "begin_path") : PathClosed(Observed("user"), i)

\* The callbacks of calls called one of names.
Emitted(names) == { i \in 1..Len(calls) : calls[i].name \in names }

\* Whether a callback called open comes before i with none called close
\* between it and i.
OpenAt(i, open, close) ==
    \E b \in Emitted({open}) : b < i /\ \A k \in (b + 1)..(i - 1) : calls[k].name # close

\* C14: whatever the input, among the callbacks emitted to any sink no
\* path_line_to, path_quad_to or path_cube_to comes unless a begin_path
\* came before it with no end_path since, no begin_path comes unless a
\* begin_drawing came before it with no end_drawing since, and no
\* begin_drawing comes while an earlier one has had no end_drawing.
C14_NoSegmentOutsidePath ==
    /\ \A i \in Emitted({"path_line_to", "path_quad_to", "path_cube_to"}) :
            OpenAt(i, "begin_path", "end_path")
    /\ \A i \in Emitted({"begin_path"}) : OpenAt(i, "begin_drawing", "end_drawing")
    /\ \A i \in Emitted({"begin_drawing"}) : ~OpenAt(i, "begin_drawing", "end_drawing")

\* A decode that failed on its bytecode after two drawings were begun and
\* a path segment emitted.
C14_Witness ==
    /\ Returned
    /\ DecodeStarted
    /\ NoCallbackFailed
    /\ LastCall.args[1] \in {iconvg_error_bad_path_unfinished, iconvg_error_bad_coordinate,
                             iconvg_error_bad_drawing_opcode}
    /\ Emitted({"path_line_to", "path_quad_to", "path_cube_to"}) # {}
    /\ Cardinality(Emitted({"begin_path"})) >= 2

\* How many callbacks called name have been emitted.
Count(name) == Cardinality(Emitted({name}))
DrawingsAndPathsClosed ==
    /\ Count("begin_drawing") = Count("end_drawing")
    /\ Count("begin_path") = Count("end_path")

\* The step that takes the interpreter from the drawing mode back to the
\* styling mode is the one on opcode 0xE1 after its end_path and
\* end_drawing.
ReturnsToStylingThroughZ ==
    ((pc \in {"drawing", "reps"}) /\ (pc' = "styling")) =>
        /\ pc = "drawing"
        /\ d.len > 0
        /\ src[d.ptr + 1] = 225
        /\ Len(calls') = Len(calls) + 2
        /\ calls'[Len(calls) + 1].name = "end_path"
        /\ calls'[Len(calls) + 2].name = "end_drawing"
\* The step that ends the interpreter with no error is taken in the
\* styling mode with no byte left.
EndsWithoutErrorInStyling ==
    ((pc \in {"styling", "drawing", "reps"}) /\ (pc' = "end_decode") /\ (err_msg' = NULL)) =>
        /\ pc = "styling"
        /\ d.len = 0
        /\ d' = d
        /\ DrawingsAndPathsClosed

\* C15: the interpreter goes from the drawing mode back to the styling
\* mode only on opcode 0xE1, having emitted end_path and then end_drawing;
\* in the styling mode as many end_drawing as begin_drawing and as many
\* end_path as begin_path have been emitted; a decode that hands end_decode
\* no error ended in the styling mode with no byte left and every drawing
\* and path closed.
C15_StylingModeBalanced ==
    /\ [](pc = "styling" => DrawingsAndPathsClosed)
    /\ []((Returned /\ DecodeStarted /\ LastCall.args[1] = NULL) =>
            (DrawingsAndPathsClosed /\ d.len = 0))
    /\ [][ReturnsToStylingThroughZ /\ EndsWithoutErrorInStyling]_vars

\* A decode without error of bytecode that drew twice.
C15_Witness ==
    /\ Returned
    /\ DecodeStarted
    /\ LastCall.args[1] = NULL
    /\ Count("begin_drawing") = 2
    /\ Count("end_drawing") = 2
    /\ Count("end_path") = 2

\* The callbacks of a drawing region.
RegionCallbacks ==
    {"begin_drawing", "begin_path", "path_line_to", "path_quad_to", "path_cube_to",
     "end_path", "end_drawing"}

\* The begin_drawing of the region the callback at i belongs to.
RegionOf(i) ==
    CHOOSE b \in Emitted({"begin_drawing"}) :
        b <= i /\ \A k \in Emitted({"begin_drawing"}) : k <= i => k <= b

\* height_in_pixels against the level-of-detail bounds in force.
OutsideLod == \/ ~F32IsNaN(ex.lod[1]) /\ F32FromInt(state.height_in_pixels) < ex.lod[1]
              \/ ~F32IsNaN(ex.lod[2]) /\ F32FromInt(state.height_in_pixels) >= ex.lod[2]
InsideLod == /\ ~F32IsNaN(ex.lod[1]) /\ ~F32IsNaN(ex.lod[2])
             /\ ex.lod[1] <= F32FromInt(state.height_in_pixels)
             /\ F32FromInt(state.height_in_pixels) < ex.lod[2]

\* The step of a begin-path opcode that emits: the region's begin_drawing
\* goes to the no-op sink with the height outside the bounds and to the
\* caller's canvas with the height inside them.
SinkChosenAtBeginPath ==
    ((pc = "styling") /\ (Len(calls') > Len(calls))) =>
        /\ src[d.ptr + 1] \in 192..198
        /\ calls'[Len(calls) + 1].name = "begin_drawing"
        /\ OutsideLod => calls'[Len(calls) + 1].to = "no_op"
        /\ InsideLod => calls'[Len(calls) + 1].to = DstCanvas
        /\ ex'.lod = ex.lod

\* C16: the sink of a drawing region is chosen at its begin-path opcode,
\* the no-op sink when height_in_pixels is below lod0 or not below lod1 and
\* the caller's canvas when lod0 <= height_in_pixels < lod1, and every
\* callback of the region goes to the sink its begin_drawing went to: all
\* to the caller's canvas or none.
C16_LodGating ==
    /\ [](\A i \in Emitted(RegionCallbacks) : calls[i].to = calls[RegionOf(i)].to)
    /\ [][SinkChosenAtBeginPath]_vars

\* Bounds (10, 20) and a height of 5: the region with its path_line_to went
\* to the no-op sink and the caller's canvas observed none of it.
C16_Witness ==
    /\ Returned
    /\ opts.canvas = "user"
    /\ ex.lod = <<F32FromInt(10), F32FromInt(20)>>
    /\ state.height_in_pixels = 5
    /\ \E i \in Emitted({"path_line_to"}) : calls[i].to = "no_op"
    /\ Count("end_drawing") = 1
    /\ \A i \in 1..Len(Observed("user")) : Observed("user")[i].name \notin RegionCallbacks

\* Whether the caller supplies options.height_in_pixels.
HeightSupplied == opts.options.non_null /\ opts.options.height_in_pixels.has_value

\* C17 as stated: the height_in_pixels of the paint state never exceeds
\* 2^20, whether it comes from dst_rect or from options.height_in_pixels.
C17_HeightNeverExceedsLimit == state.height_in_pixels <= HeightLimit

\* C17, amended: the height_in_pixels of the paint state never exceeds 2^20
\* when it is derived from dst_rect; when options.height_in_pixels is
\* supplied the paint state holds that value as given; once set, the value
\* stays as it is for the rest of the decode.
C17_DerivedHeightLimited ==
    /\ [](~HeightSupplied => state.height_in_pixels <= HeightLimit)
    /\ [][((pc = "private_decode") /\ HeightSupplied) =>
            state'.height_in_pixels = opts.options.height_in_pixels.value]_vars
    /\ [][(pc # "private_decode") => state'.height_in_pixels = state.height_in_pixels]_vars

\* A dst_rect 2^21 high with no height in the options: the paint state
\* holds 2^20 when a drawing begins.
C17_Witness ==
    /\ ~HeightSupplied
    /\ opts.dst_rect = Square(2 * HeightLimit)
    /\ state.height_in_pixels = HeightLimit
    /\ pc = "drawing"

\* The length in bytes of the variable-length number at offset p of src,
\* and whether reading n such numbers from offset p runs past the end.
NumberLength(p) == IF src[p + 1] % 2 = 0 THEN 1 ELSE IF src[p + 1] % 4 = 1 THEN 2 ELSE 4
RECURSIVE RunsOut(_, _)
RunsOut(p, n) ==
    IF n = 0 THEN FALSE
    ELSE IF p >= Len(src) THEN TRUE
    ELSE IF p + NumberLength(p) > Len(src) THEN TRUE
    ELSE RunsOut(p + NumberLength(p), n - 1)

\* The number of arguments of an iteration of a repeating drawing opcode
\* and of a non-repeating one.
RepeatedArguments(opcode) ==
    IF opcode \div 16 <= 5 THEN 2 ELSE IF opcode \div 16 <= 9 THEN 4 ELSE 6
SingleArguments(opcode) ==
    IF opcode \in {226, 227} THEN 2 ELSE IF opcode \in 230..233 THEN 1 ELSE 0

\* The step is taken in the drawing mode with no byte left, and with the
\* bytes running out inside the arguments of the opcode, no callback of
\* the step having failed.
OutAtOpcodeBoundary == (pc = "drawing") /\ (d.len = 0)
OutInsideArguments ==
    /\ \/ (pc = "reps") /\ RunsOut(d.ptr, RepeatedArguments(ex.opcode))
       \/ (pc = "drawing") /\ (d.len > 0)
            /\ RunsOut(d.ptr + 1, SingleArguments(src[d.ptr + 1]))
    /\ \A i \in (Len(calls) + 1)..Len(calls') : calls'[i].ret = NULL

\* C18 as stated: bytes that run out in the drawing mode, at an opcode
\* boundary or inside an opcode's arguments, make the decode fail with
\* bad_path_unfinished.
C18_AlwaysPathUnfinished ==
    [][(OutAtOpcodeBoundary \/ OutInsideArguments) =>
            (pc' = "end_decode" /\ err_msg' = iconvg_error_bad_path_unfinished)]_vars

\* C18, amended: bytes that run out in the drawing mode make the decode
\* fail, with bad_path_unfinished when they run out at an opcode boundary
\* and with bad_coordinate when they run out inside an opcode's arguments.
C18_UnfinishedOrBadCoordinate ==
    /\ [][OutAtOpcodeBoundary =>
            (pc' = "end_decode" /\ err_msg' = iconvg_error_bad_path_unfinished)]_vars
    /\ [][OutInsideArguments =>
            (pc' = "end_decode" /\ err_msg' = iconvg_error_bad_coordinate)]_vars
    /\ []((Returned /\ DecodeStarted /\ NoCallbackFailed
             /\ LastCall.args[1] = iconvg_error_bad_path_unfinished)
            => (d.len = 0 /\ Bracket(calls) = "path"))

\* A decode that ended with bad_coordinate on bytecode cut inside the
\* arguments of a line_to, after a segment and a second begin_path.
C18_Witness ==
    /\ Returned
    /\ DecodeStarted
    /\ NoCallbackFailed
    /\ LastCall.args[1] = iconvg_error_bad_coordinate
    /\ Bracket(calls) = "path"
    /\ Count("path_line_to") = 1
    /\ Count("begin_path") = 2
    /\ d.len = 0

\* C19: every end_decode is handed a num_bytes_consumed and a
\* num_bytes_remaining, neither below zero, that add up to src_len; when
\* the err_msg handed to it is NULL, num_bytes_remaining is 0 and
\* num_bytes_consumed is src_len.
C19_BytesConsumedAndRemaining ==
    \A i \in Emitted({"end_decode"}) :
        /\ calls[i].args[2] \in 0..Len(src)
        /\ calls[i].args[3] \in 0..Len(src)
        /\ calls[i].args[2] + calls[i].args[3] = Len(src)
        /\ (calls[i].args[1] = NULL) =>
                (calls[i].args[3] = 0 /\ calls[i].args[2] = Len(src))

\* The five-byte file 89 49 56 47 00: end_decode(NULL, 5, 0).
C19_Witness ==
    /\ Returned
    /\ DecodeStarted
    /\ src = <<137, 73, 86, 71, 0>>
    /\ LastCall.name = "end_decode"
    /\ LastCall.args = <<NULL, 5, 0>>

\* The little-endian value of the n bytes of src from the i-th.
RECURSIVE LittleEndianFrom(_, _)
LittleEndianFrom(i, n) == IF n = 0 THEN 0 ELSE src[i] + 256 * LittleEndianFrom(i + 1, n - 1)

\* C20: with first byte v, the natural-number decoder yields v >> 1, in
\* 0..127, when v & 1 = 0, the little-endian u16 >> 2, in 0..16383, when
\* v & 3 = 1, and the little-endian u32 >> 2 when v & 3 = 3; the coordinate
\* decoder yields (v >> 1) - 64 in the one-byte form and
\* ((u16 >> 2) - 8192) / 64 in the two-byte form; each succeeds when the
\* bytes of its form are there.  The u32 >> 2 is written as the low three
\* bytes >> 2 plus the fourth byte << 22, which are equal and stay below
\* 2^31.
C20_NumberEncodings ==
    /\ (pc \in {"natural_number", "no_natural_number"} /\ Len(src) >= 1 /\ src[1] % 2 = 0) =>
            /\ pc = "natural_number"
            /\ ex.flags = src[1] \div 2
            /\ ex.flags \in 0..127
    /\ (pc \in {"natural_number", "no_natural_number"} /\ Len(src) >= 2
          /\ src[1] % 4 = 1) =>
            /\ pc = "natural_number"
            /\ ex.flags = LittleEndianFrom(1, 2) \div 4
            /\ ex.flags \in 0..16383
    /\ (pc \in {"natural_number", "no_natural_number"} /\ Len(src) >= 4
          /\ src[1] % 4 = 3) =>
            /\ pc = "natural_number"
            /\ ex.flags = (LittleEndianFrom(1, 3) \div 4) + (4194304 * src[4])
    /\ (pc \in {"coordinate_number", "no_coordinate_number"} /\ Len(src) >= 1 /\ src[1] % 2 = 0) =>
            /\ pc = "coordinate_number"
            /\ ex.curr_x = F32FromInt((src[1] \div 2) - 64)
            /\ F32ToGrid(ex.curr_x) = 64 * ((src[1] \div 2) - 64)
    /\ (pc \in {"coordinate_number", "no_coordinate_number"} /\ Len(src) >= 2
          /\ src[1] % 4 = 1) =>
            /\ pc = "coordinate_number"
            /\ ex.curr_x = F32FromGrid((LittleEndianFrom(1, 2) \div 4) - 8192)
            /\ F32ToGrid(ex.curr_x) = (LittleEndianFrom(1, 2) \div 4) - 8192

\* The natural number of the two-byte form FD FF: 16383.
C20_Witness ==
    /\ pc = "natural_number"
    /\ src = <<253, 255>>
    /\ ex.flags = 16383
    /\ d = [ptr |-> 2, len |-> 0]

\* The decoder that ran, whether it succeeded, and the destination it was
\* given.
NumberDecoders == {"natural_number", "coordinate_number", "real_number", "zero_to_one_number"}
Decoded == pc \in NumberDecoders
NotDecoded == pc \in { "no_" \o k : k \in NumberDecoders }
Destination ==
    CASE pc \in {"natural_number", "no_natural_number"} -> ex.flags
      [] pc \in {"coordinate_number", "no_coordinate_number"} -> ex.curr_x
      [] pc \in {"real_number", "no_real_number"} -> ex.y1
      [] pc \in {"zero_to_one_number", "no_zero_to_one_number"} -> ex.x2
DestinationBefore ==
    IF pc \in {"natural_number", "no_natural_number"} THEN NumbersBefore.natural ELSE NumbersBefore.float

\* The length the low two bits of the first byte select.
SelectedLength ==
    CASE src[1] % 2 = 0 -> 1
      [] src[1] % 4 = 1 -> 2
      [] src[1] % 4 = 3 -> 4

\* C21: each of the four number decoders either succeeds, having advanced
\* the cursor by the 1, 2 or 4 bytes that the low two bits of the first
\* byte select, whichever decoder it is, or fails with fewer bytes than
\* that left, the cursor and the destination as they were before.
C21_NumberDecodersAdvanceOrLeave ==
    /\ Decoded =>
            /\ Len(src) >= 1
            /\ Len(src) >= SelectedLength
            /\ d = [ptr |-> SelectedLength, len |-> Len(src) - SelectedLength]
    /\ NotDecoded =>
            /\ (Len(src) = 0) \/ (Len(src) < SelectedLength)
            /\ d = [ptr |-> 0, len |-> Len(src)]
            /\ Destination = DestinationBefore

\* A zero-to-one number of the four-byte form with three bytes to read: it
\* failed and left the cursor and its destination alone.
C21_Witness ==
    /\ pc = "no_zero_to_one_number"
    /\ src = <<3, 0, 128>>
    /\ d = [ptr |-> 0, len |-> 3]
    /\ ex.x2 = NumbersBefore.float

\* The callbacks that take coordinates, and the ones the step adds.
PathCallbacks == {"begin_path", "path_line_to", "path_quad_to", "path_cube_to"}
NewCalls == { i \in (Len(calls) + 1)..Len(calls') : calls'[i].name \in PathCallbacks }

\* a is (x * scale) + bias, for a float a, a graphic-space float x and
\* doubles scale and bias that the model follows exactly, all in 64ths.
Follows(a, x, scale, bias) ==
    /\ a # Untracked /\ F32ToGrid(a) # Untracked
    /\ x # Untracked /\ F32ToGrid(x) # Untracked
    /\ scale # Untracked /\ bias # Untracked
    /\ Abs(F32ToGrid(x)) < GridSmall /\ Abs(scale) < GridSmall
Mapped(a, x, scale, bias) ==
    Follows(a, x, scale, bias) => ((F32ToGrid(a) - bias) * 64 = F32ToGrid(x) * scale)
MappedPair(args, i, x, y, e) ==
    /\ Mapped(args[i], x, e.scale_x, e.bias_x)
    /\ Mapped(args[i + 1], y, e.scale_y, e.bias_y)

\* The extents of dst_rect and of the viewbox, in 64ths.
Extent(lo, hi) ==
    IF (F32ToGrid(lo) = Untracked) \/ (F32ToGrid(hi) = Untracked) THEN Untracked
    ELSE F32ToGrid(hi) - F32ToGrid(lo)
Extents ==
    <<Extent(opts.dst_rect.min_x, opts.dst_rect.max_x),
      Extent(opts.dst_rect.min_y, opts.dst_rect.max_y),
      Extent(state.viewbox.min_x, state.viewbox.max_x),
      Extent(state.viewbox.min_y, state.viewbox.max_y)>>
ExtentsFollowed == \A i \in 1..4 : Extents[i] # Untracked
\* scale is rw / vw and bias is lo - (vlo * scale).
ScaleAndBias(scale, bias, rw, vw, lo, vlo) ==
    /\ (scale # Untracked) => (scale * vw = rw * 64)
    /\ ((scale # Untracked) /\ (bias # Untracked)) =>
            ((F32ToGrid(lo) - bias) * 64 = F32ToGrid(vlo) * scale)

\* The transform the interpreter holds is the one of dst_rect and the
\* viewbox.
TransformFixed ==
    (pc \in {"styling", "drawing", "reps"} /\ ExtentsFollowed) =>
        IF \A i \in 1..4 : Extents[i] > 0 THEN
            /\ ScaleAndBias(ex.scale_x, ex.bias_x, Extents[1], Extents[3],
                            opts.dst_rect.min_x, state.viewbox.min_x)
            /\ ScaleAndBias(ex.scale_y, ex.bias_y, Extents[2], Extents[4],
                            opts.dst_rect.min_y, state.viewbox.min_y)
        ELSE <<ex.scale_x, ex.bias_x, ex.scale_y, ex.bias_y>> = <<64, 0, 64, 0>>
\* No step of the interpreter changes the transform or the viewbox.
TransformKept ==
    (pc \in {"styling", "drawing", "reps"}) =>
        /\ <<ex'.scale_x, ex'.bias_x, ex'.scale_y, ex'.bias_y>>
                = <<ex.scale_x, ex.bias_x, ex.scale_y, ex.bias_y>>
        /\ state'.viewbox = state.viewbox
\* The last pair of every begin_path, path_line_to, path_quad_to and
\* path_cube_to of the step is the transform of the current point the step
\* leaves; the arcs' path_cube_to, whose coordinates are not followed, are
\* left out.
EndPointMapped ==
    \A i \in NewCalls :
        (calls'[i].args[Len(calls'[i].args)] # Untracked) =>
            MappedPair(calls'[i].args, Len(calls'[i].args) - 1, ex'.curr_x, ex'.curr_y, ex)
\* Every pair of an absolute 'L', 'Q' or 'C' is the transform of the pair of
\* coordinate numbers decoded for it.
AbsolutePairsMapped ==
    ((pc = "reps") /\ (ex.opcode \div 16 \in {0, 1, 6, 10})) =>
        \A i \in NewCalls :
            /\ Len(calls'[i].args) = RepeatedArguments(ex.opcode)
            /\ \A k \in 1..(Len(calls'[i].args) \div 2) :
                MappedPair(calls'[i].args, (2 * k) - 1,
                           DecodeCoordinates(d, RepeatedArguments(ex.opcode)).v[(2 * k) - 1],
                           DecodeCoordinates(d, RepeatedArguments(ex.opcode)).v[2 * k], ex)

\* C22: within one decode the scale and bias are fixed before the first
\* opcode, dst_rect's extent over the viewbox's and dst_rect's minimum less
\* the viewbox's minimum times the scale when the four extents are
\* positive, 1 and 0 otherwise, and the coordinates passed to begin_path,
\* path_line_to, path_quad_to and path_cube_to are (x * scale_x) + bias_x
\* and (y * scale_y) + bias_y of the graphic-space point.
C22_CoordinateTransform ==
    /\ []TransformFixed
    /\ [][TransformKept /\ EndPointMapped /\ AbsolutePairsMapped]_vars

\* The default viewbox (-32, -32, 32, 32) and dst_rect (0, 0, 64, 64): the
\* point (0, 0) of a begin_path came out as (32, 32) and the point (32, 32)
\* of a path_line_to as (64, 64).
C22_Witness ==
    /\ Returned
    /\ opts.dst_rect = Square(64)
    /\ state.viewbox = Rectangle(F32FromInt(0 - 32), F32FromInt(0 - 32),
                                 F32FromInt(32), F32FromInt(32))
    /\ <<ex.scale_x, ex.bias_x, ex.scale_y, ex.bias_y>> = <<64, 32 * 64, 64, 32 * 64>>
    /\ DecodeStarted
    /\ Len(src) >= 7
    /\ SubSeq(src, Len(src) - 6, Len(src)) = <<192, 128, 128, 0, 192, 192, 225>>
    /\ \E i \in Emitted({"begin_path"}) : calls[i].args = <<F32FromInt(32), F32FromInt(32)>>
    /\ \E i \in Emitted({"path_line_to"}) : calls[i].args = <<F32FromInt(64), F32FromInt(64)>>

\* C23: in the single-file release iconvg_decode_viewbox returns
\* bad_magic_identifier on every input shorter than four bytes or not
\* beginning with 89 49 56 47, and on such an input the cursor's length
\* never goes below zero.
C23_ReleaseBadMagicIdentifier ==
    ((Len(src) < 4) \/ (SubSeq(src, 1, 4) # MagicIdentifier)) =>
        /\ vb.d.len >= 0
        /\ (pc # "release") =>
                (pc = "release_returned" /\ vb.ret = iconvg_error_bad_magic_identifier)

\* The two interleaved calls.
SameArguments == (src = ghost.parked.src) /\ (opts = ghost.parked.opts)
BothReturned == (pc = "returned") /\ (ghost.parked.pc = "returned")
\* Two callbacks that differ in nothing but what the canvas returned.
SameCallback(a, b) == (a.name = b.name) /\ (a.to = b.to) /\ (a.args = b.args)
\* A path_cube_to of an arc: how many an arc makes is not followed.
OfAnArc(a) == (a.name = "path_cube_to") /\ (a.args[1] = Untracked)
\* The end of a call on a paint that iconvg_paint__type finds invalid: which
\* paints it finds so is not followed.
OfAnInvalidPaint(a) ==
    (a.name = "end_decode") /\ (a.args[1] = iconvg_error_invalid_paint_type)
NotFollowed(a) == OfAnArc(a) \/ OfAnInvalidPaint(a)
\* Up to the first callback that the two canvases answer differently, two
\* calls with the same arguments make the same callbacks (what is not
\* followed apart), and they return the same result if every callback was
\* answered the same.
SameCallbacks(a, b) ==
    /\ \A i \in 1..Len(a) :
        ((i <= Len(b)) /\ (\A j \in 1..(i - 1) : a[j] = b[j])) =>
            SameCallback(a[i], b[i]) \/ NotFollowed(a[i]) \/ NotFollowed(b[i])
    /\ (BothReturned /\ (\A j \in 1..Len(a) : (j <= Len(b)) => (a[j] = b[j]))) =>
        (Len(a) = Len(b)) /\ (ret = ghost.parked.ret) /\ (err_msg = ghost.parked.err_msg)
CallsDeterministic == SameArguments => SameCallbacks(calls, ghost.parked.calls)
\* A step of one call leaves every variable of the other call as it was,
\* and a call that is switched in resumes with what it was switched out
\* with.
CallsApart ==
    IF ghost'.running = ghost.running
    THEN ghost'.parked = ghost.parked
    ELSE (RunningCall' = ghost.parked) /\ (ghost'.parked = RunningCall)

AtStylingOpcode(from, to) == (pc = "styling") /\ (d.len > 0) /\ (Opcode >= from) /\ (Opcode <= to)
WritesRegister == AtStylingOpcode(128, 191) /\ (pc' = "styling")
\* The selector an opcode goes by: CSEL (sel[0]) for the colour opcodes
\* 0x80..0xA7 and 0xC0..0xC6, NSEL (sel[1]) for the number opcodes.
SelectorKind == IF (Opcode >= 168) /\ (Opcode < 192) THEN 2 ELSE 1
Adjustment == IF Opcode % 8 = 7 THEN 0 ELSE Opcode % 8
\* The number in 0..63 that is the selector less the adjustment modulo 64.
AddressedRegister ==
    CHOOSE i \in 0..(PaletteSize - 1) : (i + Adjustment - ex.sel[SelectorKind]) % 64 = 0
RegisterWriteAddressed ==
    WritesRegister =>
        /\ \A i \in 0..(PaletteSize - 1) :
            ((SelectorKind # 1) \/ (i # AddressedRegister)) => (state'.creg[i] = state.creg[i])
        /\ \A i \in 0..(PaletteSize - 1) :
            ((SelectorKind # 2) \/ (i # AddressedRegister)) => (state'.nreg[i] = state.nreg[i])
        /\ ex'.sel[SelectorKind] = ex.sel[SelectorKind] + (IF Opcode % 8 = 7 THEN 1 ELSE 0)
        /\ ex'.sel[3 - SelectorKind] = ex.sel[3 - SelectorKind]
BeginPathAddressed ==
    AtStylingOpcode(192, 198) =>
        /\ state'.paint_rgba = state.creg[AddressedRegister]
        /\ ex'.sel = ex.sel

\* C25: a register-write opcode 0x80..0xBF writes, and a begin-path opcode
\* 0xC0..0xC6 reads, the register numbered (sel[kind] - adjustments[op & 7])
\* mod 64 and no other; after a write the selector gone by is one more iff
\* (op & 7) == 7, and the other selector is as it was.
C25_AdjustedRegister == [][RegisterWriteAddressed /\ BeginPathAddressed]_vars
\* CSEL = 0 and opcode 0x81 (adjustment 1) have written CREG[63], and the
\* begin-path opcode 0xC1 has made it the paint.
C25_Witness ==
    /\ Len(src) >= 6
    /\ SubSeq(src, Len(src) - 5, Len(src)) = <<129, 127, 193, 128, 128, 225>>
    /\ pc = "drawing"
    /\ d.len = 1
    /\ ex.sel = <<0, 0>>
    /\ state.creg[63] = OneByteColor(127)
    /\ state.creg[63] # state.custom_palette[63]
    /\ state.paint_rgba = state.creg[63]

\* C26 as stated: in every reachable interpreter state the stored selectors
\* sel[0] and sel[1] are in 0..63 (not so: 63 incremented is stored as 64).
C26_SelectorsInRange == \A k \in 1..2 : ex.sel[k] \in 0..63
\* How a step may leave a stored selector: as it was, set to the low six
\* bits of a set-selector opcode, or one more than it was after a register
\* write with (op & 7) == 7 that went by it.
SelectorStored(k) ==
    \/ ex'.sel[k] = ex.sel[k]
    \/ /\ AtStylingOpcode(0, 127)
       /\ k = (Opcode \div 64) + 1
       /\ ex'.sel[k] = Opcode % 64
    \/ /\ WritesRegister
       /\ Opcode % 8 = 7
       /\ k = SelectorKind
       /\ ex'.sel[k] = ex.sel[k] + 1

\* C26, amended: a set-selector opcode stores a value in 0..63; a
\* register-write opcode with (op & 7) == 7 adds one to the stored selector
\* without reducing it, so that the stored value may be 64 or more, and is
\* never negative; no other step changes a selector.
C26_SelectorsStored ==
    [](\A k \in 1..2 : ex.sel[k] >= 0) /\ [][\A k \in 1..2 : SelectorStored(k)]_vars
\* CSEL set to 63 and incremented twice is stored as 65; the writes went to
\* CREG[63] and CREG[0].
C26_Witness ==
    /\ Len(src) >= 9
    /\ SubSeq(src, Len(src) - 8, Len(src)) = <<63, 135, 130, 135, 131, 192, 128, 128, 225>>
    /\ pc = "styling"
    /\ d.len = 4
    /\ ex.sel = <<65, 0>>
    /\ state.creg[63] = iconvg_private_set_one_byte_color(state.custom_palette, state.creg, 130)
    /\ state.creg[0] = iconvg_private_set_one_byte_color(state.custom_palette, state.creg, 131)

\* A stored selector as an integer congruent to it modulo 2^32.
AsInteger(v) == IF v.hi = 0 THEN v.lo ELSE v.lo - Half

\* C27: whatever the styling opcodes (more than 64 auto-incrementing writes
\* in a row and the wrap of the 32-bit selector at 2^32 included), the
\* register index the interpreter computes is in 0..63 and is the index of
\* an interpreter that reduces the selector modulo 64 at every increment:
\* the stored selector and the reduced one agree modulo 64 throughout, and
\* the index is the same computed on the integer congruent to the stored
\* selector.
C27_IndexAsReduced ==
    /\ ghost.index \in 0..63
    /\ ghost.index = ghost.reference_index
    /\ \A k \in 1..2 : ex.sel[k].lo % 64 = ghost.reference[k]
    /\ \A opcode \in RegisterOpcodes[ghost.kind] :
        RegisterIndex(AsInteger(ex.sel[ghost.kind]), opcode) =
            execute_bytecode__register_index(ex.sel[ghost.kind], opcode)
\* CSEL has been incremented through 2^32 - 1 to 0 and, by 66 or more
\* auto-incrementing writes in a row, is stored as 129; the last of the
\* writes went to CREG[0].
C27_Witness ==
    /\ ghost.wrapped
    /\ ghost.kind = 1
    /\ ex.sel[1] = uint32_t(0, 129)
    /\ ghost.reference[1] = 1
    /\ ghost.index = 0

\* A colour is premultiplied: each of R, G and B is at most alpha. The bytes
\* of the built-in one-byte colour table, and blends of them, are not
\* followed.
Premultiplied(c) == \A j \in 0..2 : (c[j] >= 256) \/ (c[3] >= 256) \/ (c[j] <= c[3])
AllPremultiplied(palette) == \A i \in 0..(PaletteSize - 1) : Premultiplied(palette[i])
PaintsPremultiplied(cs) ==
    \A i \in 1..Len(cs) : (cs[i].name = "end_drawing") => Premultiplied(cs[i].args[1])

GivenAsBytes ==
    AtStylingOpcode(136, 143) \/ AtStylingOpcode(152, 159)
GivenPremultiplied ==
    /\ PaletteSupplied => AllPremultiplied(opts.options.palette.colors)
    /\ AllPremultiplied(state'.custom_palette)
    /\ (GivenAsBytes /\ WritesRegister) =>
            Premultiplied(execute_bytecode__color(Opcode, AfterOpcode, state))
PremultipliedKept ==
    (GivenPremultiplied /\ AllPremultiplied(state.creg) /\ Premultiplied(state.paint_rgba)
        /\ PaintsPremultiplied(calls)) =>
    (AllPremultiplied(state'.creg) /\ Premultiplied(state'.paint_rgba)
        /\ PaintsPremultiplied(calls'))

Blended == pc = "blended"
BlendSum(j) == ((255 - src[1]) * state.creg[0][j]) + (src[1] * state.creg[1][j])
BlendFits ==
    /\ \A j \in 0..3 : state.creg[2][j] \in 0..255
    /\ (src[1] = 0) => (state.creg[2] = state.creg[0])
    /\ (src[1] = 255) => (state.creg[2] = state.creg[1])
\* r is the, or a, nearest integer to sum / 255.
Nearest(r, sum) == (2 * (255 * r - sum) <= 255) /\ (2 * (sum - 255 * r) <= 255)

\* C29 as stated: each channel of the blend is round(((255 - t) * p_c +
\* t * q_c) / 255), fits in 0..255, is p_c for t = 0 and q_c for t = 255 (not
\* so: t = 1, p_c = 0, q_c = 127 is blended to 1, and 127 / 255 < 1 / 2).
C29_BlendRoundsToNearest ==
    Blended => (BlendFits /\ \A j \in 0..3 : Nearest(state.creg[2][j], BlendSum(j)))

\* C29, amended: each channel of the blend is the integer part of
\* ((255 - t) * p_c + t * q_c + 128) / 255; that is the nearest integer
\* unless the sum (255 - t) * p_c + t * q_c is 127 modulo 255, and then it
\* is the next integer above the quotient. It fits in 0..255, is p_c for
\* t = 0 and q_c for t = 255.
C29_BlendAddsHalfOf256 ==
    Blended =>
        /\ BlendFits
        /\ \A j \in 0..3 :
            /\ 255 * state.creg[2][j] <= BlendSum(j) + 128
            /\ BlendSum(j) + 128 < 255 * (state.creg[2][j] + 1)
            /\ (BlendSum(j) % 255 # 127) => Nearest(state.creg[2][j], BlendSum(j))
            /\ (BlendSum(j) % 255 = 127) => (255 * (state.creg[2][j] - 1) < BlendSum(j))
\* t = 1, p = (0, 0, 0, 255) and q = (127, 127, 127, 255) are blended to
\* (1, 1, 1, 255).
C29_Witness ==
    /\ Blended
    /\ src = <<1>>
    /\ state.creg[0] = [j \in 0..3 |-> IF j = 3 THEN 255 ELSE 0]
    /\ state.creg[1] = [j \in 0..3 |-> IF j = 3 THEN 255 ELSE 127]
    /\ state.creg[2] = [j \in 0..3 |-> IF j = 3 THEN 255 ELSE 1]

\* The interpreter returning err at this step.
Rejects(err) == (pc' = "end_decode") /\ (err_msg' = err)
AtDrawingOpcode == (pc = "drawing") /\ (d.len > 0)
BadDrawingOpcodes == (224..255) \ {225, 226, 227, 230, 231, 232, 233}
StylingOpcodeRejected ==
    AtStylingOpcode(0, 255) =>
        /\ Rejects(iconvg_error_bad_styling_opcode) <=> (Opcode \in 200..255)
        /\ Rejects(iconvg_error_bad_styling_opcode) => (calls' = calls)
        /\ ~Rejects(iconvg_error_bad_drawing_opcode)
DrawingOpcodeRejected ==
    AtDrawingOpcode =>
        /\ Rejects(iconvg_error_bad_drawing_opcode) <=> (Opcode \in BadDrawingOpcodes)
        /\ Rejects(iconvg_error_bad_drawing_opcode) => (calls' = calls)
        /\ ~Rejects(iconvg_error_bad_styling_opcode)

\* C30: in the styling mode the opcodes 0xC8..0xFF, and no others, make
\* the interpreter return bad_styling_opcode; in the drawing mode the
\* opcodes of 0xE0..0xFF other than 0xE1, 0xE2, 0xE3, 0xE6, 0xE7, 0xE8 and
\* 0xE9, and no others, make it return bad_drawing_opcode; the step that
\* rejects an opcode makes no callback.
C30_OpcodesRejected == [][StylingOpcodeRejected /\ DrawingOpcodeRejected]_vars
\* The drawing mode has rejected 0xE5 after begin_drawing and begin_path,
\* with no callback since.
C30_Witness ==
    /\ pc = "end_decode"
    /\ err_msg = iconvg_error_bad_drawing_opcode
    /\ src = File(<<>>, <<192, 128, 128, 229>>)
    /\ d.len = 0
    /\ Len(calls) = 5
    /\ LastCall.name = "begin_path"

\* A repeating drawing opcode: the number of iterations after the first
\* (op & 0x1F for the line_to opcodes, op & 0x0F for the others) and the
\* callback of an iteration.
RepeatsOf(opcode) == IF opcode < 64 THEN opcode % 32 ELSE opcode % 16
SegmentOf(opcode) ==
    IF opcode < 64 THEN "path_line_to" ELSE IF opcode < 128 THEN "path_quad_to"
    ELSE "path_cube_to"
InRepeat == (pc = "reps") /\ (ex.opcode < 192)
\* The iterations of the opcode made so far.
GroupsDone == RepeatsOf(ex.opcode) - ex.reps
LastCallsAre(cs, n, name, to) ==
    /\ Len(cs) >= n
    /\ \A i \in (Len(cs) - n + 1)..Len(cs) :
        (cs[i].name = name) /\ (cs[i].to = to) /\ (cs[i].ret = NULL)
\* Inside a repeating opcode the groups done are the last callbacks made.
RepeatCounted ==
    InRepeat =>
        /\ GroupsDone \in 0..RepeatsOf(ex.opcode)
        /\ LastCallsAre(calls, GroupsDone, SegmentOf(ex.opcode), ex.c)
\* The opcode byte starts the loop and makes no callback.
RepeatStarted ==
    (AtDrawingOpcode /\ (Opcode < 192)) =>
        /\ pc' = "reps"
        /\ ex'.opcode = Opcode
        /\ ex'.reps = RepeatsOf(Opcode)
        /\ calls' = calls
\* An iteration whose group of arguments is in the input makes one callback
\* more and, the callback returning NULL, ends the loop iff it was the last
\* of RepeatsOf + 1; one whose group is cut short makes none, undoes none
\* and fails the decode.
RepeatIterated ==
    InRepeat =>
        IF RunsOut(d.ptr, RepeatedArguments(ex.opcode))
        THEN (calls' = calls) /\ Rejects(iconvg_error_bad_coordinate)
        ELSE /\ Len(calls') = Len(calls) + 1
             /\ SubSeq(calls', 1, Len(calls)) = calls
             /\ calls'[Len(calls')].name = SegmentOf(ex.opcode)
             /\ calls'[Len(calls')].to = ex.c
             /\ Len(calls'[Len(calls')].args) = (IF ex.opcode < 64 THEN 2 ELSE
                                                  IF ex.opcode < 128 THEN 4 ELSE 6)
             /\ d'.ptr > d.ptr
             /\ (calls'[Len(calls')].ret = NULL) =>
                    /\ ex'.reps = ex.reps - 1
                    /\ ex'.opcode = ex.opcode
                    /\ (pc' = "drawing") <=> (ex.reps = 0)
                    /\ (pc' = "reps") <=> (ex.reps > 0)
                    /\ (pc' = "drawing") =>
                            LastCallsAre(calls', RepeatsOf(ex.opcode) + 1,
                                         SegmentOf(ex.opcode), ex.c)

\* C31: a repeating drawing opcode whose arguments are all in the input
\* makes (op & 0x1F) + 1 path_line_to callbacks for 0x00..0x3F and
\* (op & 0x0F) + 1 path_quad_to or path_cube_to callbacks for 0x40..0xBF,
\* one for each group of arguments in the order of the groups (as long as
\* they return NULL); when the input ends inside group k the k - 1 callbacks
\* made stay made and the decode fails.
C31_RepeatedSegments == []RepeatCounted /\ [][RepeatStarted /\ RepeatIterated]_vars
\* 'L' with two groups, the input ending inside the second: one
\* path_line_to was made and the decode has failed.
C31_Witness ==
    /\ src = File(<<>>, <<192, 128, 128, 1, 144, 144, 130>>)
    /\ pc = "end_decode"
    /\ err_msg = iconvg_error_bad_coordinate
    /\ Len(calls) = 6
    /\ LastCall.name = "path_line_to"
    /\ LastCall.ret = NULL
    /\ calls[5].name = "begin_path"

\* The implicit point of the drawing mode.  A step of the drawing mode that
\* goes on drawing, and the coordinates it decoded made absolute.
StaysDrawing == pc' \in {"drawing", "reps"}
SegmentOperands ==
    FromCurrent(ex, DecodeCoordinates(d, execute_bytecode__operands(ex.opcode)).v)
Smooth(opcode) == opcode \div 16 \in {4, 5, 8, 9}
\* The last control point of the quad or cube an iteration emits and its
\* end point: a smooth quad's sole control is the implicit point.
LastControl(v) ==
    IF ex.opcode \div 16 \in {4, 5} THEN <<ex.x1, ex.y1>>
    ELSE IF ex.opcode \div 16 \in {6, 7, 8, 9} THEN <<v[1], v[2]>>
    ELSE <<v[3], v[4]>>
EndPoint(v) == <<v[Len(v) - 1], v[Len(v)]>>
\* k is the float 2 * e - c, wherever the three are followed.
Reflects(k, e, c) ==
    ((F32ToGrid(k) # Untracked) /\ (F32ToGrid(e) # Untracked) /\ (F32ToGrid(c) # Untracked))
        => (F32ToGrid(k) = (2 * F32ToGrid(e)) - F32ToGrid(c))
ImplicitAtEndPoint == (ex'.x1 = ex'.curr_x) /\ (ex'.y1 = ex'.curr_y)
\* begin_path, 'H' 'h' 'V' 'v', 'z; M' and 'z; m', 'L' 'l', 'A' 'a'.
ImplicitAfterOthers ==
    /\ ((pc = "styling") /\ (pc' = "drawing")) => ImplicitAtEndPoint
    /\ (AtDrawingOpcode /\ (Opcode >= 224) /\ StaysDrawing) => ImplicitAtEndPoint
    /\ ((pc = "reps") /\ ((ex.opcode < 64) \/ (ex.opcode >= 192)) /\ StaysDrawing)
            => ImplicitAtEndPoint
\* The opcode byte of a repeating opcode moves neither point.
ImplicitKeptByOpcode ==
    (AtDrawingOpcode /\ (Opcode < 224) /\ StaysDrawing) =>
        (ex'.x1 = ex.x1) /\ (ex'.y1 = ex.y1) /\ (ex'.curr_x = ex.curr_x)
            /\ (ex'.curr_y = ex.curr_y)
\* 'T' 't' 'Q' 'q' 'S' 's' 'C' 'c'.
ImplicitAfterCurve ==
    ((pc = "reps") /\ (ex.opcode >= 64) /\ (ex.opcode < 192) /\ StaysDrawing) =>
        LET v == SegmentOperands
            last == calls'[Len(calls')] IN
        /\ <<ex'.curr_x, ex'.curr_y>> = EndPoint(v)
        /\ Reflects(ex'.x1, EndPoint(v)[1], LastControl(v)[1])
        /\ Reflects(ex'.y1, EndPoint(v)[2], LastControl(v)[2])
        /\ (F32ToGrid(EndPoint(v)[1]) # Untracked /\ F32ToGrid(LastControl(v)[1]) # Untracked
                /\ Abs(F32ToGrid(EndPoint(v)[1])) < 2^20 /\ Abs(F32ToGrid(LastControl(v)[1])) < 2^20)
              => (ex'.x1 # Untracked)
        /\ Smooth(ex.opcode) =>
                <<last.args[1], last.args[2]>> = InCanvas(ex, <<ex.x1, ex.y1>>)
        /\ last.args = InCanvas(ex, IF Smooth(ex.opcode) THEN <<ex.x1, ex.y1>> \o v ELSE v)
\* 'Q' with control (1, 1) and end point (2, 2), then 'T' to (4, 2): the
\* quad of the 'T' has control (3, 3).
ImplicitOfExample ==
    ((src = File(<<>>, <<192, 128, 128, 96, 130, 130, 132, 132, 64, 136, 132, 225>>))
        /\ (pc = "drawing") /\ (d.len = 1)) =>
            /\ LastCall.name = "path_quad_to"
            /\ LastCall.args = InCanvas(ex, <<F32FromInt(3), F32FromInt(3),
                                              F32FromInt(4), F32FromInt(2)>>)

\* C32: in the drawing mode the implicit point (x1, y1) is 2 * the current
\* end point - the last control point after a quad (its sole control) or a
\* cube (its second control), and is the current end point after
\* begin_path, a line_to ('L' 'l' 'H' 'h' 'V' 'v'), a move (0xE2, 0xE3) or an
\* arc; a smooth 'T' 't' 'S' 's' passes it as its first control, so that 'Q'
\* (1, 1) (2, 2) then 'T' (4, 2) emits a quad with control (3, 3).
C32_ImplicitPoint ==
    /\ [][ImplicitAfterOthers /\ ImplicitKeptByOpcode /\ ImplicitAfterCurve]_vars
    /\ []ImplicitOfExample
\* The 'T' of the example has made its callback: the quad goes through
\* (3, 3) to (4, 2) and the implicit point is now (5, 1).
C32_Witness ==
    /\ src = File(<<>>, <<192, 128, 128, 96, 130, 130, 132, 132, 64, 136, 132, 225>>)
    /\ pc = "drawing"
    /\ d.len = 1
    /\ LastCall.name = "path_quad_to"
    /\ LastCall.ret = NULL
    /\ LastCall.args = <<F32FromInt(35), F32FromInt(35), F32FromInt(36), F32FromInt(34)>>
    /\ <<ex.x1, ex.y1>> = <<F32FromInt(5), F32FromInt(1)>>
    /\ <<ex.curr_x, ex.curr_y>> = <<F32FromInt(4), F32FromInt(2)>>

\* Relative and absolute opcodes.  The running call decodes a drawing
\* written with relative opcodes and the waiting call the same drawing with
\* the absolute opcodes and arguments current point + deltas, or the other
\* way round; both encodings are of the same length.
RelativeAndAbsolute ==
    \E p \in RelativePairs :
        {src, ghost.parked.src} = {File(<<>>, p[1]), File(<<>>, p[2])}
\* The two calls are between the same two opcodes and every callback of
\* both returned NULL.
AtSameOpcode ==
    /\ pc = "drawing"
    /\ ghost.parked.pc = "drawing"
    /\ d.ptr = ghost.parked.d.ptr
SamePoints(e, f) ==
    /\ <<e.curr_x, e.curr_y>> = <<f.curr_x, f.curr_y>>
    /\ <<e.x1, e.y1>> = <<f.x1, f.y1>>
    /\ e.c = f.c
RelativeAsAbsolute ==
    RelativeAndAbsolute =>
        /\ SameCallbacks(calls, ghost.parked.calls)
        /\ AtSameOpcode => /\ SamePoints(ex, ghost.parked.ex)
                           /\ calls = ghost.parked.calls
                           /\ ex.curr_x # Untracked
                           /\ ex.x1 # Untracked
\* 'H' and 'h' leave the current y as it was, 'V' and 'v' the current x.
AlongOneAxis ==
    (AtDrawingOpcode /\ (ghost'.running = ghost.running) /\ StaysDrawing) =>
        /\ (Opcode \in {230, 231}) => (ex'.curr_y = ex.curr_y)
        /\ (Opcode \in {232, 233}) => (ex'.curr_x = ex.curr_x)

\* C33: from the same state of the interpreter a relative drawing opcode
\* ('l' 't' 'q' 's' 'c' 'h' 'v', 0xE3) with deltas d and the absolute opcode
\* ('L' 'T' 'Q' 'S' 'C' 'H' 'V', 0xE2) with arguments current point + d make
\* the same callbacks with the same coordinates and leave the same current
\* point and the same implicit point, the deltas of each repetition being
\* from the end point of the one before; 'H' 'h' leave the current y and
\* 'V' 'v' the current x unchanged.
C33_RelativeAsAbsolute == []RelativeAsAbsolute /\ [][AlongOneAxis]_vars
\* 'q' and two 't' in one call, 'Q' and two 'T' in the other: both have
\* made their three quads and stand before the 'z' with the same points.
C33_Witness ==
    /\ src = File(<<>>, <<192, 130, 130, 112, 130, 128, 132, 130, 81, 130, 130, 130, 126, 225>>)
    /\ ghost.parked.src
         = File(<<>>, <<192, 130, 130, 96, 132, 130, 134, 132, 65, 136, 134, 138, 132, 225>>)
    /\ AtSameOpcode
    /\ d.len = 1
    /\ Len(calls) = 8
    /\ calls = ghost.parked.calls
    /\ LastCall.name = "path_quad_to"
    /\ <<ex.curr_x, ex.curr_y>> = <<F32FromInt(5), F32FromInt(2)>>

\* 0xE2 and 0xE3.  The point the opcode moves to, its two coordinates being
\* v: v itself, or the current point + v.
MovedTo(v) ==
    IF Opcode = 227 THEN <<F32Add(ex.curr_x, v[1]), F32Add(ex.curr_y, v[2])>> ELSE v
\* The step of a 0xE2 or 0xE3: end_path is the first callback it makes;
\* when end_path returned NULL and the two coordinates are in the input,
\* begin_path at the new point is the second and last, on the same canvas,
\* and the drawing mode goes on from that point; when they are not, end_path
\* stays the only callback and the decode fails with bad_coordinate.
ClosedThenMoved ==
    (AtDrawingOpcode /\ (Opcode \in {226, 227})) =>
        LET xy == DecodeCoordinates(AfterOpcode, 2)
            n == Len(calls)
            made == Len(calls') - n IN
        /\ made \in {1, 2}
        /\ SubSeq(calls', 1, n) = calls
        /\ calls'[n + 1].name = "end_path"
        /\ calls'[n + 1].to = ex.c
        /\ calls'[n + 1].args = <<>>
        /\ (calls'[n + 1].ret # NULL) => (made = 1) /\ Rejects(calls'[n + 1].ret)
        /\ ((calls'[n + 1].ret = NULL) /\ ~xy.ok) =>
                (made = 1) /\ Rejects(iconvg_error_bad_coordinate)
        /\ ((calls'[n + 1].ret = NULL) /\ xy.ok) =>
                /\ made = 2
                /\ calls'[n + 2].name = "begin_path"
                /\ calls'[n + 2].to = ex.c
                /\ calls'[n + 2].args = InCanvas(ex, MovedTo(xy.v))
                /\ IF calls'[n + 2].ret # NULL THEN Rejects(calls'[n + 2].ret)
                   ELSE /\ pc' = "drawing"
                        /\ ex'.c = ex.c
                        /\ <<ex'.curr_x, ex'.curr_y>> = MovedTo(xy.v)
                        /\ d' = xy.self
                        /\ state' = state

\* C34: opcodes 0xE2 and 0xE3 emit end_path, then read two coordinates,
\* then emit begin_path at the new point (the coordinates, resp. the current
\* point + the coordinates) and stay in the drawing mode on the same canvas,
\* emitting neither end_drawing nor begin_drawing; when the coordinates
\* cannot be read, end_path has been emitted already, no begin_path follows
\* and the decode fails.
C34_ClosedThenMoved == [][ClosedThenMoved]_vars
\* 0xE2 as the last byte: end_path was made and returned NULL, and the
\* decode has failed on the coordinates.
C34_Witness ==
    /\ src = File(<<>>, <<192, 128, 128, 226>>)
    /\ pc = "end_decode"
    /\ err_msg = iconvg_error_bad_coordinate
    /\ LastCall.name = "end_path"
    /\ LastCall.ret = NULL
    /\ calls[Len(calls) - 1].name = "begin_path"

\* The region of a drawing: from a begin-path opcode to the 0xE1 closing
\* it.  What the styling mode keeps: the registers and the paint with the
\* transform (state), the selectors, the LOD bounds, the transform of the
\* coordinates and the canvas chosen.
InRegion == pc \in {"drawing", "reps"}
Styling(st, e) ==
    <<st, e.sel, e.lod, e.scale_x, e.bias_x, e.scale_y, e.bias_y, e.c>>
\* The register (CSEL - adjustment) mod 64 of the begin-path opcode op.
PaintRegister(op) ==
    CHOOSE i \in 0..(PaletteSize - 1) : (i + (op % 8) - ex.sel[1]) % 64 = 0
\* A begin-path opcode makes the register it addresses the paint and
\* leaves the registers and the selectors as they are.
RegionEntered ==
    (AtStylingOpcode(192, 198) /\ (pc' = "drawing")) =>
        /\ state'.paint_rgba = state.creg[PaintRegister(Opcode)]
        /\ state'.creg = state.creg
        /\ state'.nreg = state.nreg
        /\ <<ex'.sel, ex'.lod>> = <<ex.sel, ex.lod>>
        /\ <<ex'.scale_x, ex'.bias_x, ex'.scale_y, ex'.bias_y>>
                = <<ex.scale_x, ex.bias_x, ex.scale_y, ex.bias_y>>
\* No step inside the region, the 0xE1 included, changes any of these, and
\* the 0xE1 hands the paint to end_drawing.
RegionKept ==
    InRegion =>
        /\ Styling(state', ex') = Styling(state, ex)
        /\ (AtDrawingOpcode /\ (Opcode = 225) /\ (Len(calls') = Len(calls) + 2)) =>
                /\ calls'[Len(calls')].name = "end_drawing"
                /\ calls'[Len(calls')].to = ex.c
                /\ calls'[Len(calls')].args = <<state.paint_rgba>>
        /\ (pc' = "styling") => AtDrawingOpcode /\ (Opcode = 225)
\* Inside the region, and when the styling mode resumes after it, the paint
\* is the register that a begin-path opcode of the input that was executed
\* addresses by the selector as it is.
PaintOfRegion ==
    (InRegion \/ ((pc = "styling") /\ (calls # <<>>) /\ (LastCall.name = "end_drawing"))) =>
        \E p \in 1..d.ptr :
            /\ src[p] \in 192..198
            /\ state.paint_rgba = state.creg[PaintRegister(src[p])]
            /\ (~InRegion) => (LastCall.args = <<state.creg[PaintRegister(src[p])]>>)

\* C35: between a begin-path opcode (0xC0..0xC6) and the 0xE1 closing the
\* region no drawing opcode changes CREG, NREG, CSEL, NSEL, the LOD bounds,
\* the transform, the canvas chosen or the paint: the paint handed to
\* end_drawing is the value that CREG[(CSEL - adjustment) mod 64] had when
\* the begin-path opcode executed, and the styling mode resumes with the
\* selectors and registers it had before the region.
C35_RegionKeepsStyling == [][RegionEntered /\ RegionKept]_vars /\ []PaintOfRegion
\* CSEL was set off 0 and registers were written through it; a region
\* opened by 0xC0 has been closed: end_drawing got CREG[CSEL mod 64] and the
\* styling mode has resumed.
C35_Witness ==
    /\ pc = "styling"
    /\ calls # <<>>
    /\ LastCall.name = "end_drawing"
    /\ LastCall.ret = NULL
    /\ ex.sel[1] % 64 # 0
    /\ LastCall.args = <<state.creg[ex.sel[1] % 64]>>
    /\ \E i \in 0..(PaletteSize - 1) : state.creg[i] # state.custom_palette[i]

\* Termination.  An iteration of a metadata loop, of the styling or the
\* drawing loop, or of the loop of a repeating opcode, that leaves the
\* function in a loop, has consumed input.
ViewboxIterated ==
    ((pc = "viewbox_chunks") /\ (pc' = "viewbox_chunks")) => (vb'.d.len < vb.d.len)
MetadataIterated == ((pc = "metadata") /\ (pc' = "metadata")) => (d'.len < d.len)
InBytecode(at) == at \in {"styling", "drawing", "reps"}
OpcodeIterated == (InBytecode(pc) /\ InBytecode(pc')) => (d'.len < d.len)
\* No step lengthens the input that remains.
NeverLonger == (d'.len <= d.len) /\ (vb'.d.len <= vb.d.len)
\* The phases a call goes through, in their order.
Phase(at) ==
    CASE at = "start" -> 0
      [] at = "viewbox_chunks" -> 1
      [] at = "viewbox_returned" -> 2
      [] at = "private_decode" -> 3
      [] at = "metadata" -> 4
      [] at = "metadata_palette" -> 5
      [] InBytecode(at) -> 6
      [] at = "end_decode" -> 7
      [] at = "returned" -> 8
PhasesInOrder == Phase(pc') >= Phase(pc)
\* The callbacks made are bounded by the length of the input: four that
\* every call makes, and for each byte no more than the cubes of an arc.
CallsBounded == Len(calls) <= 4 + ((2 + MaxArcCubes) * Len(src))
IterationsBounded ==
    /\ Len(ghost.vb_chunks) <= Len(src)
    /\ Len(ghost.chunks) <= Len(src)
\* A call that has not returned has a step to take.
NeverStuck == Returned \/ DecodesAhead \/ ENABLED OtherStep

\* C36: every call of iconvg_decode and of iconvg_decode_viewbox returns, on
\* every finite input, provided each callback returns: every iteration of a
\* metadata loop and of the styling and drawing loops that does not end the
\* decode strictly decreases the number of bytes that remain, so that the
\* iterations and the callbacks are bounded by a function of src_len, also
\* when num_metadata_chunks is declared as 2^30 - 1.
C36_Terminates ==
    /\ <>Returned
    /\ [][ViewboxIterated /\ MetadataIterated /\ OpcodeIterated /\ NeverLonger
            /\ PhasesInOrder]_vars
    /\ [](CallsBounded /\ IterationsBounded /\ NeverStuck)
\* 2^30 - 1 chunks are declared and two are there: iconvg_decode_viewbox
\* returned after its third iteration and iconvg_decode has returned too.
C36_Witness ==
    /\ src = MagicIdentifier \o <<255, 255, 255, 255, 2, 4, 2, 6>>
    /\ Returned
    /\ vb.ret = iconvg_error_bad_metadata
    /\ vb.d.len = 0
    /\ Len(ghost.vb_chunks) = 2
    /\ vb.num_metadata_chunks >= (2^30) - 3
    /\ LastCall.name = "end_decode"

\* The cursors.  A cursor over the input: it is not the null cursor that
\* advance_to_ptr leaves when it fails, and it ends where the input ends.
OverInput(c) == (c.ptr # NullPtr) /\ (c.ptr >= 0) /\ (c.len >= 0) /\ (c.ptr + c.len = Len(src))
CursorsOverInput == OverInput(d) /\ OverInput(vb.d)
\* A chunk for which a sub-cursor was made lies inside the input; one whose
\* chunk_length is more than what is left is rejected before any is made.
ChunkInside(c) ==
    IF c.at + c.chunk_length <= Len(src) THEN c.chunk_length >= 0
    ELSE (c.err = iconvg_error_bad_metadata) /\ (c.id = NoId)
\* The end of what a function may have read when c is the chunk it is in
\* or has just accepted.
ChunkEnd(c) == IF c.at + c.chunk_length <= Len(src) THEN c.at + c.chunk_length ELSE c.at
ChunksInside ==
    /\ \A i \in 1..Len(ghost.vb_chunks) : ChunkInside(ghost.vb_chunks[i])
    /\ \A i \in 1..Len(ghost.chunks) : ChunkInside(ghost.chunks[i])
    /\ ((ghost.vb_chunks # <<>>)
            /\ ((pc = "viewbox_chunks") \/ (ghost.vb_chunks[Len(ghost.vb_chunks)].err # NULL))) =>
            (ghost.vb_reads \subseteq 0..(ChunkEnd(ghost.vb_chunks[Len(ghost.vb_chunks)]) - 1))
    /\ ((ghost.chunks # <<>>)
            /\ ((pc = "metadata") \/ (ghost.chunks[Len(ghost.chunks)].err # NULL))) =>
            (ghost.reads \subseteq 0..(ChunkEnd(ghost.chunks[Len(ghost.chunks)]) - 1))
\* After a chunk is accepted the cursor is chunk_length bytes past the
\* chunk's length prefix.
ChunksSkipped ==
    /\ ((pc = "viewbox_chunks") /\ (ghost.vb_chunks # <<>>)) =>
            /\ ghost.vb_chunks[Len(ghost.vb_chunks)].err = NULL
            /\ vb.d = AfterChunk(ghost.vb_chunks[Len(ghost.vb_chunks)])
    /\ ((pc = "metadata") /\ (ghost.chunks # <<>>)) =>
            /\ ghost.chunks[Len(ghost.chunks)].err = NULL
            /\ d = AfterChunk(ghost.chunks[Len(ghost.chunks)])
ReadsInInput == (ghost.vb_reads \cup ghost.reads) \subseteq InputOffsets

\* C37: in decoder.c, on every input, every byte read is at an offset below
\* src_len, the remaining length of a cursor never underflows and never
\* grows, the sub-cursor of a chunk never extends past the outer cursor,
\* and after each accepted metadata chunk the outer cursor is exactly
\* chunk_length bytes past the length prefix, so that advance_to_ptr never
\* takes its failure branch (ptr = NULL, len = 0).
C37_CursorsInBounds ==
    /\ [](ReadsInInput /\ CursorsOverInput /\ ChunksInside /\ ChunksSkipped)
    /\ [][NeverLonger]_vars
\* Two chunks were accepted, the second ending where the input ends:
\* advance_to_ptr moved the cursor by all that was left.
C37_Witness ==
    /\ pc = "metadata"
    /\ Len(ghost.chunks) = 2
    /\ ghost.chunks[2].err = NULL
    /\ ghost.chunks[2].chunk_length > 1
    /\ d = [ptr |-> Len(src), len |-> 0]
    /\ (Len(src) - 1) \in ghost.reads

\* The two functions on the same bytes.  The errors of the magic
\* identifier, of the framing, of the order of the ids and of the ViewBox
\* chunk.
MetadataErrors ==
    { iconvg_error_bad_magic_identifier, iconvg_error_bad_metadata,
      iconvg_error_bad_metadata_id_order, iconvg_error_bad_metadata_viewbox }
\* No chunk that the function got to had an id other than 0.
OnlyViewBoxChunks(chunks) == \A i \in 1..Len(chunks) : chunks[i].id \in {0, NoId}
\* iconvg_decode has returned and what it handed to end_decode.
DecodeReturned == Returned /\ DecodeStarted /\ (LastCall.name = "end_decode")
DecodeError == LastCall.args[1]
\* iconvg_decode got through the metadata: iconvg_decode_viewbox has
\* succeeded and its rectangle is the one of on_metadata_viewbox.
SameViewBox ==
    \A i \in 1..Len(calls) :
        (calls[i].name = "on_metadata_viewbox") =>
            /\ vb.ret = NULL
            /\ (~opts.null_dst_viewbox) => (vb.dst_viewbox = calls[i].args[1])
            /\ opts.null_dst_viewbox => (vb.dst_viewbox = CallerViewbox)
\* A failure of either function on the magic identifier, the framing, the
\* order of the ids or a ViewBox chunk, before any chunk of an id other
\* than 0, is the failure of the other.
SameFailure ==
    DecodeReturned =>
        /\ ((vb.ret \in MetadataErrors) /\ OnlyViewBoxChunks(ghost.vb_chunks)) =>
                (DecodeError = vb.ret)
        /\ ((DecodeError \in MetadataErrors) /\ OnlyViewBoxChunks(ghost.chunks)) =>
                (vb.ret = DecodeError)

\* C38: on every input on which iconvg_decode gets through the metadata (it
\* calls on_metadata_viewbox), iconvg_decode_viewbox on the same bytes
\* succeeds and writes exactly the rectangle passed to on_metadata_viewbox;
\* and on every input the two functions report the same error when the
\* failure is a bad magic identifier, unreadable chunk framing, an id-order
\* violation or a bad ViewBox chunk that occurs before any chunk of an id
\* other than 0.
C38_ViewboxAsDecode == SameViewBox /\ SameFailure
\* Two ViewBox chunks: both functions accepted the first and failed on the
\* order of the ids at the second.
C38_Witness ==
    /\ DecodeReturned
    /\ FrameIds = <<0, 0>>
    /\ Len(ghost.chunks) = 2
    /\ Len(ghost.vb_chunks) = 2
    /\ vb.ret = iconvg_error_bad_metadata_id_order
    /\ DecodeError = iconvg_error_bad_metadata_id_order
    /\ vb.dst_viewbox # CallerViewbox

\* What iconvg_decode_viewbox leaves in *dst_viewbox.  The ViewBox chunks
\* (id 0) among those the function accepted, and the rectangle of one read
\* from the file's bytes.
AcceptedViewBoxChunks ==
    { i \in 1..Len(ghost.vb_chunks) :
        (ghost.vb_chunks[i].id = 0) /\ (ghost.vb_chunks[i].err = NULL) }
ViewBoxChunkSeen == \E i \in 1..Len(ghost.vb_chunks) : ghost.vb_chunks[i].id = 0
RectangleOfChunk(c) ==
    Rectangle(DecodeCoordinates(Payload(c), 4).v[1], DecodeCoordinates(Payload(c), 4).v[2],
              DecodeCoordinates(Payload(c), 4).v[3], DecodeCoordinates(Payload(c), 4).v[4])
ValidatedRectangle(r) ==
    \E i \in AcceptedViewBoxChunks :
        /\ ~MalformedCoordinates(DecodeCoordinates(Payload(ghost.vb_chunks[i]), 4))
        /\ r = RectangleOfChunk(ghost.vb_chunks[i])
\* *dst_viewbox is as the caller left it, or holds the rectangle of a
\* validated ViewBox chunk, or the default after a success without one.
WrittenOnlyValidated ==
    /\ opts.null_dst_viewbox => (vb.dst_viewbox = CallerViewbox)
    /\ (vb.dst_viewbox # CallerViewbox) =>
           \/ ValidatedRectangle(vb.dst_viewbox)
           \/ /\ ViewboxReturned
              /\ vb.ret = NULL
              /\ ~ViewBoxChunkSeen
              /\ vb.dst_viewbox = iconvg_private_default_viewbox
\* After an error *dst_viewbox is the caller's, unless a ViewBox chunk was
\* accepted before the failing one.
KeptOnError ==
    (ViewboxReturned /\ (vb.ret # NULL)) =>
        IF (AcceptedViewBoxChunks # {}) /\ ~opts.null_dst_viewbox
        THEN ValidatedRectangle(vb.dst_viewbox)
        ELSE vb.dst_viewbox = CallerViewbox
\* Two records of the function's locals and result that differ at most in
\* *dst_viewbox.
SameButViewbox(v, w) ==
    [v EXCEPT !.dst_viewbox = CallerViewbox] = [w EXCEPT !.dst_viewbox = CallerViewbox]
\* A step of the function leaves the cursor, the counters and the result it
\* would leave had dst_viewbox been NULL where it is not, and not NULL
\* where it is.
WhateverDstViewbox ==
    (pc = "viewbox_chunks") =>
        IF vb.num_metadata_chunks > 0
        THEN /\ SameButViewbox(vb', decode_viewbox__chunk(vb, TRUE).v)
             /\ SameButViewbox(vb', decode_viewbox__chunk(vb, FALSE).v)
        ELSE /\ SameButViewbox(vb', decode_viewbox__finish(vb, TRUE))
             /\ SameButViewbox(vb', decode_viewbox__finish(vb, FALSE))

\* C39: iconvg_decode_viewbox writes *dst_viewbox only with the rectangle of
\* an id-0 chunk that passed validation or, on a successful return with no
\* id-0 chunk, with the default; when it returns an error *dst_viewbox is
\* unchanged unless a well-formed id-0 chunk preceded the failing chunk, and
\* then it holds that chunk's rectangle; and the error it returns is the
\* same whether dst_viewbox is NULL or not.
C39_ViewboxWritten ==
    [](WrittenOnlyValidated /\ KeptOnError) /\ [][WhateverDstViewbox]_vars
\* iconvg_decode_viewbox has just failed on the second of two ViewBox
\* chunks with the rectangle of the first in *dst_viewbox.
C39_Witness ==
    /\ pc = "viewbox_returned"
    /\ ~opts.null_dst_viewbox
    /\ vb.ret = iconvg_error_bad_metadata_id_order
    /\ Len(ghost.vb_chunks) = 2
    /\ AcceptedViewBoxChunks = {1}
    /\ vb.dst_viewbox = RectangleOfChunk(ghost.vb_chunks[1])
    /\ vb.dst_viewbox # iconvg_private_default_viewbox

=============================================================================
